---- MODULE Spec2Model ----
(***************************************************************************)
(* Cash-flow manager: the transaction store (AppContext), the catalog of   *)
(* guides, and the flow views computed from them (daily, real weekly,      *)
(* monthly, combined, forecast).                                           *)
(*                                                                         *)
(* Representation                                                          *)
(*   - a date string "YYYY-MM-DD" is the tuple <<y, m, d>>; the month key  *)
(*     date.substring(0, 7) is <<y, m>>; a missing filter (null or '') is  *)
(*     NULL;                                                               *)
(*   - a JavaScript Date is its time value in HOURS since 1970-01-01T00Z;  *)
(*     the local time zone is the environment variable tz;                 *)
(*   - a number is an integer count of model units, Cent units being 0.01  *)
(*     of the currency; every division the code performs is exact on the   *)
(*     amounts the model draws;                                            *)
(*   - a guide name is the sequence of its characters.                     *)
(***************************************************************************)
EXTENDS Integers, Sequences, FiniteSets, TLC

VARIABLES
    persistentTransactions,  \* useLocalStorage('transactions_persistent')
    sessionTransactions,     \* useState<Transaction[]>
    persistenceEnabled,      \* useLocalStorage('persistenceEnabled')
    scheduledPayments,       \* useState<ScheduledPayment[]>
    guides,                  \* useLocalStorage('guides'): sequence of Guide
    currentView,             \* App.currentView: the mounted view
    startDateFilter,         \* mounted view's useState (daily, combined)
    endDateFilter,           \* mounted view's useState (daily, combined)
    selectedDate,            \* mounted view's useState (real weekly)
    selectedYear,            \* mounted view's useState (monthly, forecast)
    excludedGuideIds,        \* mounted view's useState (forecast)
    useME,                   \* mounted view's useState
    tz,                      \* environment: the browser's time zone
    now,                     \* environment: the wall clock, in hours
    randomSeq,               \* environment: the values Math.random() returns
    entries,                 \* the row keys handed to Array.prototype.sort
    sortedGuides             \* the row keys as sorted for the table body

vars == <<persistentTransactions, sessionTransactions, persistenceEnabled,
          scheduledPayments, guides, currentView, startDateFilter,
          endDateFilter, selectedDate, selectedYear, excludedGuideIds, useME,
          tz, now, randomSeq, entries, sortedGuides>>

storeVars == <<persistentTransactions, sessionTransactions, persistenceEnabled,
               scheduledPayments, guides>>
viewVars == <<currentView, startDateFilter, endDateFilter, selectedDate,
              selectedYear, excludedGuideIds, useME>>
envVars == <<tz, now, randomSeq>>
sortVars == <<entries, sortedGuides>>

NULL == <<>>

-----------------------------------------------------------------------------
(* Generic helpers                                                         *)

Abs(x) == IF x < 0 THEN -x ELSE x

\* JavaScript's a / b on values for which the quotient is exact.
Quot(a, b) == IF a >= 0 THEN a \div b ELSE -((-a) \div b)

Range(s) == {s[i] : i \in DOMAIN s}

RECURSIVE SumOver(_, _)
\* The sum of f[i] over the indices i in S (a reduce over a filtered array).
SumOver(f, S) ==
    IF S = {} THEN 0
    ELSE LET i == CHOOSE j \in S : TRUE IN f[i] + SumOver(f, S \ {i})

-----------------------------------------------------------------------------
(* Calendar: the proleptic Gregorian calendar of ECMAScript's Date.        *)

\* Days from 1970-01-01 to y-m-d (Date.UTC, Date.parse of a date-only form).
DaysFromCivil(y, m, d) ==
    LET yy  == IF m <= 2 THEN y - 1 ELSE y
        era == yy \div 400
        yoe == yy - era * 400
        mp  == IF m > 2 THEN m - 3 ELSE m + 9
        doy == (153 * mp + 2) \div 5 + d - 1
        doe == yoe * 365 + yoe \div 4 - yoe \div 100 + doy
    IN era * 146097 + doe - 719468

\* y-m-d of the day that is n days after 1970-01-01 (toISOString's date).
CivilFromDays(n) ==
    LET z   == n + 719468
        era == z \div 146097
        doe == z - era * 146097
        yoe == (doe - doe \div 1460 + doe \div 36524 - doe \div 146096) \div 365
        doy == doe - (365 * yoe + yoe \div 4 - yoe \div 100)
        mp  == (5 * doy + 2) \div 153
        d   == doy - (153 * mp + 2) \div 5 + 1
        m   == IF mp < 10 THEN mp + 3 ELSE mp - 9
        y   == yoe + era * 400 + (IF m <= 2 THEN 1 ELSE 0)
    IN <<y, m, d>>

IsLeap(y) == (y % 4 = 0 /\ y % 100 # 0) \/ y % 400 = 0

DaysInMonth(y, m) ==
    IF m = 2 THEN (IF IsLeap(y) THEN 29 ELSE 28)
    ELSE IF m \in {4, 6, 9, 11} THEN 30 ELSE 31

\* A string that Date.parse accepts as a date-only ISO form.
IsDateString(s) ==
    /\ Len(s) = 3
    /\ s[2] \in 1..12
    /\ s[3] \in 1..DaysInMonth(s[1], s[2])

\* The time value of an invalid Date; no comparison with it is true.
NaN == 0 - 100000000

\* new Date(s).getTime() for a date-only string: UTC midnight of that day.
DateParse(s) == IF IsDateString(s) THEN DaysFromCivil(s[1], s[2], s[3]) * 24 ELSE NaN

\* new Date(s + 'T12:00:00Z').getTime(): noon UTC of that day.
DateParseNoon(s) == IF IsDateString(s) THEN DateParse(s) + 12 ELSE NaN

\* date.toISOString().split('T')[0]
ISODate(t) == CivilFromDays(t \div 24)

\* date.getUTCDay(): 0 is Sunday; 1970-01-01 was a Thursday.
GetUTCDay(t) == ((t \div 24) + 4) % 7

\* date.substring(0, 7)
MonthKey(s) == <<s[1], s[2]>>

-----------------------------------------------------------------------------
(* Local time: the offset of the browser's zone from UTC, in hours.        *)

TimeZones == {"UTC", "America/New_York"}

\* The instants (UTC hours) between which New York observes daylight time.
DstStart(y) == CASE y = 2023 -> DaysFromCivil(2023, 3, 12) * 24 + 7
                 [] y = 2024 -> DaysFromCivil(2024, 3, 10) * 24 + 7
                 [] OTHER    -> DaysFromCivil(2025, 3, 9) * 24 + 7
DstEnd(y) == CASE y = 2023 -> DaysFromCivil(2023, 11, 5) * 24 + 6
               [] y = 2024 -> DaysFromCivil(2024, 11, 3) * 24 + 6
               [] OTHER    -> DaysFromCivil(2025, 11, 2) * 24 + 6

\* Tonga is 13 hours ahead of UTC all year.
TzOffset(zone, t) ==
    IF zone = "UTC" THEN 0
    ELSE IF zone = "Pacific/Tongatapu" THEN 13
    ELSE LET y == ISODate(t)[1]
         IN IF DstStart(y) <= t /\ t < DstEnd(y) THEN -4 ELSE -5

\* The local wall-clock reading of instant t, as hours on the same scale.
LocalTime(zone, t) == t + TzOffset(zone, t)

\* The instant whose local reading is w (no reading used here falls in a
\* skipped or repeated hour).
FromLocalTime(zone, w) ==
    IF zone = "UTC" THEN w
    ELSE IF zone = "Pacific/Tongatapu" THEN w - 13
    ELSE IF TzOffset(zone, w + 5) = -5 THEN w + 5 ELSE w + 4

\* date.getFullYear(): the year of the local reading.
GetFullYear(zone, t) == ISODate(LocalTime(zone, t))[1]

\* d.setDate(d.getDate() + k): k local calendar days later, same local
\* time of day.
AddLocalDays(zone, t, k) == FromLocalTime(zone, LocalTime(zone, t) + 24 * k)

\* d.setUTCDate(d.getUTCDate() + k)
AddUTCDays(t, k) == t + 24 * k

\* today.setHours(0, 0, 0, 0): local midnight of the local day of t.
LocalMidnight(zone, t) ==
    FromLocalTime(zone, (LocalTime(zone, t) \div 24) * 24)

-----------------------------------------------------------------------------
(* Numbers.  0.01 of the currency is Cent model units; Cent is a multiple  *)
(* of every divisor the forecast applies in sequence (month count 1..4,    *)
(* 12 months, tenths of a variation, halves, and 29 for 0.16 / 1.16), so   *)
(* the quotients of the amounts drawn below are exact.                     *)

Cent == (2 * 2 * 2 * 2 * 2) * (3 * 3) * 5 * 29

-----------------------------------------------------------------------------
(* Guide names, character by character (regular expressions and            *)
(* localeCompare look at characters).                                      *)

SinCategoria == <<"S", "i", "n", " ", "C", "a", "t">>       \* 'Sin Categoría'
TransferFallbackName == <<"1", "3", "-", "T", "r", "a", "s">> \* '13-Traspasos intercompañia'
VentasName == <<"1", "-", "V", " ", "P", "1", "0", "0", "1">> \* an operating-income guide

Digits == {"0", "1", "2", "3", "4", "5", "6", "7", "8", "9"}

DigitValue(c) ==
    CASE c = "0" -> 0 [] c = "1" -> 1 [] c = "2" -> 2 [] c = "3" -> 3
      [] c = "4" -> 4 [] c = "5" -> 5 [] c = "6" -> 6 [] c = "7" -> 7
      [] c = "8" -> 8 [] c = "9" -> 9

\* types.ts Transaction; the fields the flow views read.
Tx(id, guide, date, amountMN, amountME, type) ==
    [id |-> id, guide |-> guide, date |-> date, amountMN |-> amountMN,
     amountME |-> amountME, type |-> type]

\* types.ts ScheduledPayment; guide "" stands for an absent guide.
Payment(id, concept, guide, date, amount, amountME) ==
    [id |-> id, concept |-> concept, guide |-> guide, date |-> date,
     amount |-> amount, amountME |-> amountME]

\* types.ts Guide
Guide(id, name, inactive) ==
    [id |-> id, name |-> name, isInactiveForForecast |-> inactive]

-----------------------------------------------------------------------------
(* AppContext: the store the views read.                                   *)

transactions ==
    IF persistenceEnabled THEN persistentTransactions ELSE sessionTransactions

\* new Map(guides.map(g => [g.id, g.name])).get(id): the last entry wins.
GuideMapGet(gs, id) ==
    LET hits == {i \in DOMAIN gs : gs[i].id = id}
    IN IF hits = {} THEN NULL
       ELSE gs[CHOOSE i \in hits : \A j \in hits : j <= i].name

\* guideMap.get(id) || 'Sin Categoría'
getGuideName(gs, id) ==
    IF GuideMapGet(gs, id) = NULL THEN SinCategoria ELSE GuideMapGet(gs, id)

\* t[amountField]
AmountOf(t, me) == IF me THEN t.amountME ELSE t.amountMN

-----------------------------------------------------------------------------
(* Comparisons of Date objects: any comparison with an invalid Date is     *)
(* false.                                                                  *)

DateLt(a, b) == a # NaN /\ b # NaN /\ a < b
DateGt(a, b) == a # NaN /\ b # NaN /\ a > b

\* items.filter(x => x.date && !isNaN(new Date(x.date).getTime()))
ValidDated(items) ==
    SelectSeq(items, LAMBDA x : x.date # NULL /\ DateParse(x.date) # NaN)

\* [...items].sort((a, b) => new Date(a.date).getTime() - new Date(b.date).getTime())
RECURSIVE InsertByDate(_, _)
InsertByDate(x, s) ==
    IF s = <<>> THEN <<x>>
    ELSE IF DateParse(x.date) < DateParse(Head(s).date) THEN <<x>> \o s
    ELSE <<Head(s)>> \o InsertByDate(x, Tail(s))

RECURSIVE SortByDate(_)
SortByDate(s) ==
    IF s = <<>> THEN <<>>
    ELSE \* the last element goes behind its equals: the sort is stable
         InsertByDate(s[Len(s)], SortByDate(SubSeq(s, 1, Len(s) - 1)))

\* The filter both the daily and the combined view apply to a dated item.
filterByDate(date, start, end) ==
    LET d == DateParse(date)
    IN /\ ~(start # NULL /\ DateLt(d, DateParse(start)))
       /\ ~(end # NULL /\ DateGt(d, DateParse(end)))

\* BucketTotals with the expense branch forgetting totals.net += amount
BucketTotalsNetSkipsExpense(amt, toIncome, toExpense) ==
    [income |-> SumOver(amt, toIncome), expense |-> SumOver(amt, toExpense),
     net |-> SumOver(amt, toIncome)]

\* One bucket's totals after every item was accumulated: totals.income +=
\* for the items routed to income, totals.expense += for the items routed to
\* expense, totals.net += for each of them.
BucketTotals(amt, toIncome, toExpense) ==
    [income  |-> SumOver(amt, toIncome),
     expense |-> SumOver(amt, toExpense),
     net     |-> SumOver(amt, toIncome \cup toExpense)]

EmptyMap == [k \in {} |-> 0]

-----------------------------------------------------------------------------
(* DailyFlowView.flowData                                                  *)

transferGuideId == "13"

\* for (let d = new Date(start); d <= end; d.setDate(d.getDate() + 1))
\*     dates.push(d.toISOString().split('T')[0])
RECURSIVE DailyDateLoop(_, _, _)
DailyDateLoop(zone, d, end) ==
    IF d <= end
    THEN <<ISODate(d)>> \o DailyDateLoop(zone, AddLocalDays(zone, d, 1), end)
    ELSE <<>>

DailyFlowData(txs, gs, start, end, me, zone) ==
    LET validTransactions == ValidDated(txs)
        initialBalance ==
            SumOver([i \in DOMAIN validTransactions |->
                        AmountOf(validTransactions[i], me)],
                    {i \in DOMAIN validTransactions :
                        /\ start # NULL
                        /\ DateLt(DateParse(validTransactions[i].date),
                                  DateParse(start))})
        filteredTransactions ==
            SelectSeq(validTransactions,
                      LAMBDA t : filterByDate(t.date, start, end))
        sorted == SortByDate(filteredTransactions)
        tableStartDate == IF start # NULL THEN DateParse(start)
                          ELSE DateParse(sorted[1].date)
        tableEndDate == IF end # NULL THEN DateParse(end)
                        ELSE DateParse(sorted[Len(sorted)].date)
        dates == IF tableStartDate # NaN /\ tableEndDate # NaN
                 THEN DailyDateLoop(zone, tableStartDate, tableEndDate)
                 ELSE <<>>
        amt == [i \in DOMAIN sorted |-> AmountOf(sorted[i], me)]
        transfers == {i \in DOMAIN sorted : sorted[i].guide = transferGuideId}
        others == DOMAIN sorted \ transfers
        \* dailyNetTransfers: Map<date, number>
        transferDates == {sorted[i].date : i \in transfers}
        dailyNetTransfers ==
            [d \in transferDates |->
                SumOver(amt, {i \in transfers : sorted[i].date = d})]
        transferGuideName == getGuideName(gs, transferGuideId)
        names == {getGuideName(gs, sorted[i].guide) : i \in others}
                 \cup (IF transfers # {} THEN {transferGuideName} ELSE {})
        rowOf(name) == {i \in others : getGuideName(gs, sorted[i].guide) = name}
        dataByGuide ==
            [name \in names |->
                [d \in {sorted[i].date : i \in rowOf(name)}
                        \cup (IF name = transferGuideName /\ transfers # {}
                              THEN transferDates ELSE {}) |->
                    \* transferGuideData[date] = netAmount overwrites the cell
                    IF name = transferGuideName /\ d \in transferDates
                    THEN dailyNetTransfers[d]
                    ELSE SumOver(amt, {i \in rowOf(name) : sorted[i].date = d})]]
        dailyTotals ==
            [d \in Range(dates) |->
                LET onDay == {i \in others : sorted[i].date = d}
                    own == BucketTotals(amt,
                              {i \in onDay : sorted[i].type = "Income"},
                              {i \in onDay : sorted[i].type # "Income"})
                    \* totals.income += netAmount; totals.net += netAmount
                    tr  == IF d \in transferDates THEN dailyNetTransfers[d] ELSE 0
                IN [income |-> own.income + tr, expense |-> own.expense,
                    net |-> own.net + tr]]
    IN IF Len(validTransactions) = 0
       THEN [dates |-> <<>>, dataByGuide |-> EmptyMap, totals |-> EmptyMap,
             initialBalance |-> 0]
       ELSE IF Len(filteredTransactions) = 0
       THEN [dates |-> <<>>, dataByGuide |-> EmptyMap, totals |-> EmptyMap,
             initialBalance |-> initialBalance]
       ELSE [dates |-> dates, dataByGuide |-> dataByGuide,
             totals |-> dailyTotals, initialBalance |-> initialBalance]

\* The 'Saldo Inicial' row: the running balance before each bucket.
RECURSIVE OpeningRow(_, _, _)
OpeningRow(running, buckets, totals) ==
    IF buckets = <<>> THEN <<>>
    ELSE LET b == Head(buckets)
             net == IF b \in DOMAIN totals THEN totals[b].net ELSE 0
         IN <<running>> \o OpeningRow(running + net, Tail(buckets), totals)

\* ClosingRow with the running balance not carried to the next bucket
RECURSIVE ClosingRowNotCarried(_, _, _)
ClosingRowNotCarried(running, buckets, totals) ==
    IF buckets = <<>> THEN <<>>
    ELSE LET b == Head(buckets)
             net == IF b \in DOMAIN totals THEN totals[b].net ELSE 0
         IN <<running + net>> \o ClosingRowNotCarried(running, Tail(buckets), totals)

\* The 'Saldo Final' row: the running balance after each bucket.
RECURSIVE ClosingRow(_, _, _)
ClosingRow(running, buckets, totals) ==
    IF buckets = <<>> THEN <<>>
    ELSE LET b == Head(buckets)
             net == IF b \in DOMAIN totals THEN totals[b].net ELSE 0
         IN <<running + net>> \o ClosingRow(running + net, Tail(buckets), totals)

-----------------------------------------------------------------------------
(* MonthlyFlowView.flowData                                                *)

\* new Date(s).getFullYear(); NaN for an invalid date
YearOf(zone, s) ==
    IF DateParse(s) = NaN THEN NaN ELSE GetFullYear(zone, DateParse(s))

\* Array.from({ length: 12 }, (_, i) => `${selectedYear}-${pad(i + 1)}`)
MonthsOfYear(year) == [i \in 1..12 |-> <<year, i>>]

\* transactions.filter(t => new Date(t.date).getFullYear() < selectedYear)
\*             .reduce((acc, t) => acc + t[amountField], 0)
YearInitialBalance(txs, year, me, zone) ==
    SumOver([i \in DOMAIN txs |-> AmountOf(txs[i], me)],
            {i \in DOMAIN txs : YearOf(zone, txs[i].date) # NaN
                                /\ YearOf(zone, txs[i].date) < year})

MonthlyFlowData(txs, gs, year, me, zone) ==
    LET months == MonthsOfYear(year)
        initialBalance == YearInitialBalance(txs, year, me, zone)
        yearly == {i \in DOMAIN txs : txs[i].date # NULL
                                      /\ YearOf(zone, txs[i].date) = year}
        amt == [i \in DOMAIN txs |-> AmountOf(txs[i], me)]
        names == {getGuideName(gs, txs[i].guide) : i \in yearly}
        rowOf(name) == {i \in yearly : getGuideName(gs, txs[i].guide) = name}
        dataByGuide ==
            [name \in names |->
                [m \in {MonthKey(txs[i].date) : i \in rowOf(name)} |->
                    SumOver(amt, {i \in rowOf(name) : MonthKey(txs[i].date) = m})]]
        monthlyTotals ==
            [m \in Range(months) |->
                LET inMonth == {i \in yearly : MonthKey(txs[i].date) = m}
                    toIncome == {i \in inMonth : txs[i].guide = transferGuideId
                                                  \/ txs[i].type = "Income"}
                IN BucketTotals(amt, toIncome, inMonth \ toIncome)]
    IN [dates |-> months, dataByGuide |-> dataByGuide, totals |-> monthlyTotals,
        initialBalance |-> initialBalance]

-----------------------------------------------------------------------------
(* RealWeeklyFlowView: getWeekStartDate and flowData                       *)

\* getWeekStartDate written with the local-time accessors: new Date(dateStr),
\* getDay(), setDate(getDate() - offset)
getWeekStartDateLocal(dateStr, clock) ==
    LET date == DateParse(dateStr)
        base == IF date = NaN THEN clock ELSE date
        offset == (GetUTCDay(LocalTime(tz, base)) + 1) % 7
    IN ISODate(AddLocalDays(tz, base, -offset))

\* The week starts on Saturday: (getUTCDay() + 1) % 7 days after it.
getWeekStartDate(dateStr, clock) ==
    LET date == DateParseNoon(dateStr)
        base == IF date = NaN THEN clock ELSE date
        offset == (GetUTCDay(base) + 1) % 7
    IN ISODate(AddUTCDays(base, -offset))

\* for (let d = new Date(first + 'T12:00:00Z'); d <= lastDate;
\*      d.setDate(d.getDate() + 7)) columns.push(d.toISOString().split('T')[0])
RECURSIVE WeekLoop(_, _, _)
WeekLoop(zone, d, lastDate) ==
    IF d <= lastDate
    THEN <<ISODate(d)>> \o WeekLoop(zone, AddLocalDays(zone, d, 7), lastDate)
    ELSE <<>>

RealWeeklyFlowData(txs, gs, selected, me, zone, clock) ==
    LET validTransactions == ValidDated(txs)
        sorted == SortByDate(validTransactions)
        selectedWeekStart == IF selected # NULL
                             THEN getWeekStartDate(selected, clock) ELSE NULL
        isDaily == selectedWeekStart # NULL
        start == DateParseNoon(selectedWeekStart)
        columns ==
            IF isDaily
            THEN [i \in 1..7 |-> ISODate(AddUTCDays(start, i - 1))]
            ELSE WeekLoop(zone, DateParseNoon(getWeekStartDate(sorted[1].date, clock)),
                          DateParseNoon(sorted[Len(sorted)].date))
        filtered ==
            IF isDaily
            THEN {i \in DOMAIN sorted :
                    /\ DateParseNoon(sorted[i].date) >= DateParseNoon(columns[1])
                    /\ DateParseNoon(sorted[i].date) <= DateParseNoon(columns[7])}
            ELSE DOMAIN sorted
        amt == [i \in DOMAIN sorted |-> AmountOf(sorted[i], me)]
        initialBalance ==
            IF columns = <<>> THEN 0
            ELSE SumOver(amt, {i \in DOMAIN sorted :
                                DateLt(DateParse(sorted[i].date), DateParse(columns[1]))})
        colKey(i) == IF isDaily
                     THEN (IF sorted[i].date \in Range(columns)
                           THEN sorted[i].date ELSE NULL)
                     ELSE getWeekStartDate(sorted[i].date, clock)
        \* Only process if the transaction falls into one of our columns
        placed == {i \in filtered : colKey(i) # NULL /\ colKey(i) \in Range(columns)}
        names == {getGuideName(gs, sorted[i].guide) : i \in placed}
        rowOf(name) == {i \in placed : getGuideName(gs, sorted[i].guide) = name}
        dataByGuide ==
            [name \in names |->
                [c \in {colKey(i) : i \in rowOf(name)} |->
                    SumOver(amt, {i \in rowOf(name) : colKey(i) = c})]]
        totals ==
            [c \in Range(columns) |->
                LET inCol == {i \in placed : colKey(i) = c}
                    toIncome == {i \in inCol : sorted[i].guide = transferGuideId
                                                \/ sorted[i].type = "Income"}
                IN BucketTotals(amt, toIncome, inCol \ toIncome)]
    IN IF Len(validTransactions) = 0
       THEN [dates |-> <<>>, dataByGuide |-> EmptyMap, totals |-> EmptyMap,
             initialBalance |-> 0, isDaily |-> FALSE]
       ELSE [dates |-> columns, dataByGuide |-> dataByGuide, totals |-> totals,
             initialBalance |-> initialBalance, isDaily |-> isDaily]

-----------------------------------------------------------------------------
(* CombinedFlowView.flowData                                               *)

\* while (current <= end) { dates.push(iso(current));
\*                          current.setUTCDate(current.getUTCDate() + 1) }
RECURSIVE CombinedDateLoop(_, _)
CombinedDateLoop(current, end) ==
    IF current <= end
    THEN <<ISODate(current)>> \o CombinedDateLoop(AddUTCDays(current, 1), end)
    ELSE <<>>

\* Date.UTC(d.getUTCFullYear(), d.getUTCMonth(), d.getUTCDate())
UTCMidnight(t) == (t \div 24) * 24

\* combinedItems: the transactions, then the scheduled payments
CombinedItems(txs, pays, gs, start, end, me) ==
    LET filteredTransactions ==
            SelectSeq(ValidDated(txs), LAMBDA t : filterByDate(t.date, start, end))
        filteredScheduledPayments ==
            SelectSeq(ValidDated(pays), LAMBDA q : filterByDate(q.date, start, end))
    IN [i \in DOMAIN filteredTransactions |->
            LET t == filteredTransactions[i]
            IN [date |-> t.date, concept |-> getGuideName(gs, t.guide),
                amount |-> AmountOf(t, me), type |-> t.type]]
       \o
       [i \in DOMAIN filteredScheduledPayments |->
            LET q == filteredScheduledPayments[i]
                rawAmount == IF me THEN q.amountME ELSE q.amount
            IN [date |-> q.date,
                concept |-> IF q.guide # "" THEN getGuideName(gs, q.guide)
                            ELSE q.concept,
                amount |-> rawAmount,
                type |-> IF rawAmount >= 0 THEN "Income" ELSE "Expense"]]

CombinedFlowData(txs, pays, gs, start, end, me, zone, clock) ==
    LET validTransactions == ValidDated(txs)
        initialBalance ==
            SumOver([i \in DOMAIN validTransactions |->
                        AmountOf(validTransactions[i], me)],
                    {i \in DOMAIN validTransactions :
                        /\ start # NULL
                        /\ DateLt(DateParse(validTransactions[i].date),
                                  DateParse(start))})
        combinedItems == CombinedItems(txs, pays, gs, start, end, me)
        sorted == SortByDate(combinedItems)
        tableStartDate == IF start # NULL THEN DateParse(start)
                          ELSE DateParse(sorted[1].date)
        lastItemDate == DateParse(sorted[Len(sorted)].date)
        today == LocalMidnight(zone, clock)
        tableEndDate == IF end # NULL THEN DateParse(end)
                        ELSE IF lastItemDate < today THEN today
                        ELSE lastItemDate
        dates == IF tableStartDate # NaN /\ tableEndDate # NaN
                 THEN CombinedDateLoop(UTCMidnight(tableStartDate),
                                       UTCMidnight(tableEndDate))
                 ELSE <<>>
        transferGuideName ==
            IF GuideMapGet(gs, transferGuideId) = NULL THEN TransferFallbackName
            ELSE GuideMapGet(gs, transferGuideId)
        amt == [i \in DOMAIN sorted |-> sorted[i].amount]
        rowOf(concept) == {i \in DOMAIN sorted : sorted[i].concept = concept}
        toIncome(i) == sorted[i].concept = transferGuideName \/ sorted[i].amount >= 0
        dataByConcept ==
            [concept \in {sorted[i].concept : i \in DOMAIN sorted} |->
                [d \in {sorted[i].date : i \in rowOf(concept)} |->
                    LET cell == {i \in rowOf(concept) : sorted[i].date = d}
                    IN BucketTotals(amt, {i \in cell : toIncome(i)},
                                    {i \in cell : ~toIncome(i)})]]
        dailyTotals ==
            [d \in Range(dates) |->
                LET onDay == {i \in DOMAIN sorted : sorted[i].date = d}
                IN BucketTotals(amt, {i \in onDay : toIncome(i)},
                                {i \in onDay : ~toIncome(i)})]
    IN IF Len(combinedItems) = 0
       THEN [dates |-> <<>>, dataByConcept |-> EmptyMap, totals |-> EmptyMap,
             initialBalance |-> initialBalance]
       ELSE [dates |-> dates, dataByConcept |-> dataByConcept,
             totals |-> dailyTotals, initialBalance |-> initialBalance]

-----------------------------------------------------------------------------
(* ForecastedMonthlyFlowView: the names the forecast looks for             *)

SaldoInicialName == <<"0", "-", "S", "a", "l", "d", "o", " ",
                      "I", "n", "i", "c", "i", "a", "l">>
AguinaldoName == <<"2", "0", "-", "A", "g", "u", "i", "n", "a", "l", "d", "o">>
NominaName == <<"1", "9", "-", "N", "o", "m", "i", "n", "a">>   \* '19-Nómina'
PtuName == <<"2", "2", "-", "P", "T", "U", " ",
             "G", "a", "r", "a", "n", "t", "i", "z", "a", "d", "a">>
FiniquitosName == <<"2", "3", "-", "F", "i", "n", "i", "q", "u", "i", "t", "o", "s">>

\* excludedExpenseNamesForVat; of its 24 names, those a catalog of this
\* model can contain.
excludedExpenseNamesForVat ==
    {NominaName, AguinaldoName, PtuName, FiniquitosName}

Letters == {"A", "B", "F", "G", "I", "N", "P", "R", "S", "T", "U", "V", "Z",
            "a", "c", "d", "e", "g", "i", "l", "m", "n", "o", "q", "r", "s",
            "t", "u", "z"}

\* \w of a regular expression
IsWordChar(c) == c \in Letters \cup Digits \cup {"_"}

\* name.startsWith(prefix)
StartsWith(name, prefix) ==
    Len(name) >= Len(prefix) /\ SubSeq(name, 1, Len(prefix)) = prefix

\* /\bP\d{4}\b/.test(name)
IsOperatingIncomeName(name) ==
    \E i \in 1..Len(name) :
        /\ name[i] = "P"
        /\ i + 4 <= Len(name)
        /\ \A k \in 1..4 : name[i + k] \in Digits
        /\ (i = 1 \/ ~IsWordChar(name[i - 1]))
        /\ (i + 4 = Len(name) \/ ~IsWordChar(name[i + 5]))

\* The id guides.find(pred)?.id yields when no guide matches: falsy, and
\* equal to no guide's id
NoId == ""

\* guides.find(pred)?.id: the id of the first guide that matches
\* (hits: the positions of the guides that satisfy pred)
FindGuideId(gs, hits) ==
    IF hits = {} THEN NoId
    ELSE gs[CHOOSE i \in hits : \A j \in hits : i <= j].id

initialBalanceGuideId(gs) == FindGuideId(gs, {i \in DOMAIN gs : gs[i].name = SaldoInicialName})
aguinaldoGuideId(gs) == FindGuideId(gs, {i \in DOMAIN gs : gs[i].name = AguinaldoName})
nominaGuideId(gs) == FindGuideId(gs, {i \in DOMAIN gs : gs[i].name = NominaName})
ptuGuideId(gs) == FindGuideId(gs, {i \in DOMAIN gs : gs[i].name = PtuName})
vatGuideId(gs) == FindGuideId(gs, {i \in DOMAIN gs : StartsWith(gs[i].name, <<"2", "9", "-">>)})

operatingIncomeGuideIds(gs) ==
    {gs[i].id : i \in {j \in DOMAIN gs : IsOperatingIncomeName(gs[j].name)}}
excludedExpenseIdsForVat(gs) ==
    {gs[i].id : i \in {j \in DOMAIN gs : gs[j].name \in excludedExpenseNamesForVat}}

\* The filter without the excluded set
activeGuidesUnexcluded(gs, excluded) ==
    SelectSeq(gs, LAMBDA g : ~g.isInactiveForForecast)

\* guides.filter(g => !g.isInactiveForForecast && !excludedGuideIds.has(g.id))
activeGuides(gs, excluded) ==
    SelectSeq(gs, LAMBDA g : ~g.isInactiveForForecast /\ g.id \notin excluded)
activeGuideIds(gs, excluded) == {g.id : g \in Range(activeGuides(gs, excluded))}

\* (a, b) => new Date(b.date).getTime() - new Date(a.date).getTime(): a NaN
\* result counts as 0 in Array.prototype.sort
CompareDateDesc(a, b) ==
    IF DateParse(a.date) = NaN \/ DateParse(b.date) = NaN THEN 0
    ELSE DateParse(b.date) - DateParse(a.date)

\* [...transactions].sort(CompareDateDesc): a stable sort. With an invalid
\* date among three or more records the comparator is inconsistent and the
\* order is the engine's; this is the insertion order V8 gives short arrays.
RECURSIVE InsertByDateDesc(_, _)
InsertByDateDesc(x, s) ==
    IF s = <<>> THEN <<x>>
    ELSE IF CompareDateDesc(x, Head(s)) < 0 THEN <<x>> \o s
    ELSE <<Head(s)>> \o InsertByDateDesc(x, Tail(s))

RECURSIVE SortByDateDesc(_)
SortByDateDesc(s) ==
    IF s = <<>> THEN <<>>
    ELSE InsertByDateDesc(s[Len(s)], SortByDateDesc(SubSeq(s, 1, Len(s) - 1)))

\* new Date(sortedTransactions[0].date + 'T12:00:00Z'): noon UTC of the
\* first record after the sort (an invalid Date if its date is unparsable),
\* or new Date(0) when there is no transaction.
lastRealDate(txs) ==
    IF Len(txs) = 0 THEN 0
    ELSE DateParseNoon(SortByDateDesc(txs)[1].date)

\* d.setMonth(d.getMonth() + k): local calendar arithmetic; a day of the
\* month the target month lacks rolls over into the next month.
AddLocalMonths(zone, t, k) ==
    LET w   == LocalTime(zone, t)
        ymd == ISODate(w)
        mi  == ymd[1] * 12 + (ymd[2] - 1) + k
        y   == mi \div 12
        m   == (mi % 12) + 1
    IN FromLocalTime(zone, (DaysFromCivil(y, m, 1) + ymd[3] - 1) * 24 + (w % 24))

historyStartDate(txs, zone) ==
    IF lastRealDate(txs) = NaN THEN NaN
    ELSE AddLocalMonths(zone, lastRealDate(txs), -3)

\* The indices of historicalTransactions
historicalTransactions(txs, gs, excluded, zone) ==
    {i \in DOMAIN txs :
        /\ txs[i].guide # ""
        /\ txs[i].guide \in activeGuideIds(gs, excluded)
        /\ txs[i].guide # initialBalanceGuideId(gs)
        /\ DateParseNoon(txs[i].date) # NaN
        /\ lastRealDate(txs) # NaN
        /\ DateParseNoon(txs[i].date) >= historyStartDate(txs, zone)
        /\ DateParseNoon(txs[i].date) <= lastRealDate(txs)}

\* baseMonthlyAverages: Map<guideId, number>
baseMonthlyAverages(txs, gs, excluded, me, zone) ==
    LET amt == [i \in DOMAIN txs |-> AmountOf(txs[i], me)]
        averages(hist) ==
            LET monthsInHistory == {MonthKey(txs[i].date) : i \in hist}
                monthCount == IF Cardinality(monthsInHistory) > 0
                              THEN Cardinality(monthsInHistory) ELSE 1
            IN [g \in {txs[i].guide : i \in hist} |->
                    Quot(SumOver(amt, {i \in hist : txs[i].guide = g}), monthCount)]
    IN averages(historicalTransactions(txs, gs, excluded, zone))

\* map.get(key) || 0
GetOr0(map, key) == IF key \in DOMAIN map THEN map[key] ELSE 0

\* monthStartDate > lastRealDate, for monthStartDate = new Date(month + '-01T12:00:00Z')
IsForecastMonth(txs, month) ==
    DateGt(DateParseNoon(<<month[1], month[2], 1>>), lastRealDate(txs))

\* selectedYear > lastRealDate.getFullYear(): false for an invalid Date
isFutureYear(txs, year, zone) ==
    lastRealDate(txs) # NaN /\ year > GetFullYear(zone, lastRealDate(txs))

\* The whole payroll average instead of half of it
WholePayroll(nominaAvg) == -Abs(nominaAvg)

\* -(Math.abs(nominaAvg) / 2)
HalfPayroll(nominaAvg) == -Quot(Abs(nominaAvg), 2)

\* previousYearTotals: Map<guideId, number>
previousYearTotals(txs, gs, excluded, year, me, zone) ==
    LET active == activeGuideIds(gs, excluded)
        prevYearMonths == MonthsOfYear(year - 1)
        amt == [i \in DOMAIN txs |-> AmountOf(txs[i], me)]
        fc == {k \in 1..12 : IsForecastMonth(txs, prevYearMonths[k])}
        real(k) == {i \in DOMAIN txs :
                        /\ MonthKey(txs[i].date) = prevYearMonths[k]
                        /\ txs[i].guide \in active
                        /\ txs[i].guide # initialBalanceGuideId(gs)
                        /\ txs[i].guide # ""}
        \* what one forecast month of the previous year adds for guide g
        forecastPart(base, k, g) ==
            IF g \notin active \/ g = initialBalanceGuideId(gs) THEN 0
            ELSE IF g = aguinaldoGuideId(gs)
            THEN (IF k = 12 /\ nominaGuideId(gs) # NoId
                  THEN HalfPayroll(GetOr0(base, nominaGuideId(gs))) ELSE 0)
            ELSE base[g]
        totals(base) ==
            [g \in DOMAIN base
                    \cup {txs[i].guide : i \in UNION {real(k) : k \in (1..12) \ fc}} |->
                SumOver([k \in 1..12 |->
                            IF k \in fc
                            THEN (IF g \in DOMAIN base THEN forecastPart(base, k, g) ELSE 0)
                            ELSE SumOver(amt, {i \in real(k) : txs[i].guide = g})],
                        1..12)]
    IN totals(baseMonthlyAverages(txs, gs, excluded, me, zone))

\* monthlyAverages: the base averages, or adjustedMonthlyAverages for a year
\* beyond the last real one
monthlyAverages(txs, gs, excluded, year, me, zone) ==
    LET adjustedMonthlyAverages(base, prev) ==
            [g \in DOMAIN base |->
                LET projectedTotal == base[g] * 12
                    previousTotal == GetOr0(prev, g)
                IN IF Abs(projectedTotal) > Abs(previousTotal) /\ previousTotal # 0
                   THEN Quot(previousTotal, 12)
                   ELSE base[g]]
    IN IF ~isFutureYear(txs, year, zone)
       THEN baseMonthlyAverages(txs, gs, excluded, me, zone)
       ELSE adjustedMonthlyAverages(
                baseMonthlyAverages(txs, gs, excluded, me, zone),
                previousYearTotals(txs, gs, excluded, year, me, zone))

\* originalAmount * (1 + (Math.random() - 0.5) * 0.4), for Math.random()
\* returning r hundredths, r a multiple of 25: the factor is (200 + r) / 250.
VariedAmount(originalAmount, r) ==
    Quot(originalAmount * ((200 + r) \div 25), 10)

\* 16% of x taken as a net amount: x * 0.16
VatOnNet(x) == Quot(x * 4, 25)

\* (x / 1.16) * 0.16
VatShare(x) == Quot(x * 4, 29)

ForecastFlowData(txs, gs, excluded, year, me, zone, rnd) ==
    LET months == MonthsOfYear(year)
        \* the table, given monthlyAverages and the set of forecast months
        table(avg, fc) ==
            LET act == activeGuides(gs, excluded)
                actIds == activeGuideIds(gs, excluded)
                amt == [i \in DOMAIN txs |-> AmountOf(txs[i], me)]
                vat == vatGuideId(gs)
                agui == aguinaldoGuideId(gs)
                ptu == ptuGuideId(gs)
                nomina == nominaGuideId(gs)
                halfNomina == IF nomina # NoId THEN HalfPayroll(GetOr0(avg, nomina)) ELSE 0
                \* the guides that take the variation / correction branch
                varies(q) == /\ act[q].id \notin {vat, agui, ptu}
                             /\ Abs(GetOr0(avg, act[q].id)) >= Cent
                \* isLastForecastMonth = month === months[months.length - 1]
                draws(k, q) == k \in fc /\ k # 12 /\ varies(q)
                drawIndex(k, q) ==
                    Cardinality({kq \in (1..12) \X DOMAIN act :
                                    /\ draws(kq[1], kq[2])
                                    /\ (kq[1] < k \/ (kq[1] = k /\ kq[2] < q))})
                varied(k, q) ==
                    VariedAmount(avg[act[q].id], rnd[(drawIndex(k, q) % Len(rnd)) + 1])
                \* forecastCorrection.get(guide.id) when the last month is reached
                correction(q) ==
                    SumOver([k \in 1..12 |->
                                IF draws(k, q) THEN varied(k, q) - avg[act[q].id] ELSE 0],
                            1..12)
                forecastAmount(k, q) ==
                    LET g == act[q].id
                    IN IF g = agui THEN (IF k = 12 THEN halfNomina ELSE 0)
                       ELSE IF g = ptu THEN (IF k = 5 THEN halfNomina ELSE 0)
                       ELSE IF ~varies(q) THEN 0
                       ELSE IF k # 12 THEN varied(k, q)
                       ELSE avg[g] - correction(q)
                pos(g) == CHOOSE q \in DOMAIN act : act[q].id = g /\
                             \A r \in DOMAIN act : act[r].id = g => r <= q
                realIn(g, k) == {i \in DOMAIN txs : /\ MonthKey(txs[i].date) = months[k]
                                                    /\ txs[i].guide = g}
                ids == {txs[i].guide : i \in DOMAIN txs} \cup actIds
                \* vatDetail, given the forecast cells of the month
                vatDetailOf(amount) ==
                    LET incomes == DOMAIN amount \cap operatingIncomeGuideIds(gs)
                        expenses == {g \in DOMAIN amount \ incomes :
                                        amount[g] < 0 /\ g \notin excludedExpenseIdsForVat(gs)}
                        detail(totalIncome, totalExpense) ==
                            LET ivaCobrado == VatShare(totalIncome)
                                ivaAcreditable == VatShare(Abs(totalExpense))
                            IN [incomes |-> [g \in incomes |-> amount[g]],
                                expenses |-> [g \in expenses |-> amount[g]],
                                totalIncome |-> totalIncome, totalExpense |-> totalExpense,
                                ivaCobrado |-> ivaCobrado, ivaAcreditable |-> ivaAcreditable,
                                netVat |-> -(ivaCobrado - ivaAcreditable)]
                    IN detail(SumOver(amount, incomes), SumOver(amount, expenses))
                \* the months' cells, given amount[k][q]: what the first pass
                \* over activeGuides computes for guide q in forecast month k
                cells(amount) ==
                    LET \* the cell of guide g in a forecast month, before VAT: NULL if none
                        plainForecast(g, k) ==
                            IF g \in actIds /\ g # vat /\ Abs(amount[k][pos(g)]) > Cent
                            THEN [amount |-> amount[k][pos(g)], isForecast |-> TRUE]
                            ELSE NULL
                        vatDetail(k) ==
                            vatDetailOf([g \in {h \in actIds : plainForecast(h, k) # NULL} |->
                                            plainForecast(g, k).amount])
                        \* the table, given detail[k]: the vatDetail of forecast month k
                        posted(detail) ==
                            LET vatPosted(k) == /\ k \in fc /\ vat # NoId /\ vat \in actIds
                                                /\ Abs(detail[k].netVat) > Cent
                                cell(g, k) ==
                                    IF k \notin fc
                                    THEN (IF g # "" /\ realIn(g, k) # {}
                                          THEN [amount |-> SumOver(amt, realIn(g, k)),
                                                isForecast |-> FALSE]
                                          ELSE NULL)
                                    ELSE IF g = vat /\ vatPosted(k)
                                    THEN [amount |-> detail[k].netVat, isForecast |-> TRUE]
                                    ELSE plainForecast(g, k)
                                result(dataByGuide) ==
                                    LET monthlyTotals ==
                                            [m \in Range(months) |->
                                                LET has == {g \in DOMAIN dataByGuide :
                                                               m \in DOMAIN dataByGuide[g]}
                                                    a == [g \in has |-> dataByGuide[g][m].amount]
                                                    t == BucketTotals(a, {g \in has : a[g] > 0},
                                                                      {g \in has : ~(a[g] > 0)})
                                                IN [income |-> t.income, expense |-> t.expense,
                                                    net |-> t.net, isForecast |-> m[2] \in fc]]
                                        vatDetailsByMonth ==
                                            [m \in {months[k] : k \in {j \in 1..12 : vatPosted(j)}} |->
                                                detail[m[2]]]
                                    IN [dates |-> months, dataByGuide |-> dataByGuide,
                                        totals |-> monthlyTotals,
                                        initialBalance |-> YearInitialBalance(txs, year, me, zone),
                                        vatDetailsByMonth |-> vatDetailsByMonth]
                            IN result([g \in {h \in ids : \E k \in 1..12 : cell(h, k) # NULL} |->
                                         [m \in {months[k] : k \in {j \in 1..12 : cell(g, j) # NULL}} |->
                                             cell(g, m[2])]])
                    IN posted([k \in 1..12 |-> IF k \in fc THEN vatDetail(k) ELSE NULL])
            IN cells([k \in 1..12 |->
                        [q \in DOMAIN act |-> IF k \in fc THEN forecastAmount(k, q) ELSE 0]])
    IN table(monthlyAverages(txs, gs, excluded, year, me, zone),
             {k \in 1..12 : IsForecastMonth(txs, months[k])})

-----------------------------------------------------------------------------
(* The inputs the model draws                                              *)

MaxTx == 2          \* transactions in a store
MaxPayments == 1    \* scheduled payments
YearSpan == 1       \* years after the current one the year selector reaches

Oct15 == <<2024, 10, 15>>
Nov2 == <<2024, 11, 2>>     \* a Saturday; New York leaves daylight time on Nov 3
Nov4 == <<2024, 11, 4>>
Nov9 == <<2024, 11, 9>>     \* the next Saturday

\* '2024-11-99', as normalizePastedDate returns it for a pasted '99-nov-2024':
\* no Date can be made of it
Nov99 == <<2024, 11, 99>>

\* Transaction forms the user can submit: guide, date, amountMN, amountME,
\* type. Two of them have a type that disagrees with the amount's sign; the
\* two transfers of Nov 4 net to zero; one has an unparsable date.
TxPool ==
    { Tx(0, "1",  Oct15, 120 * Cent,  5 * Cent, "Income"),
      Tx(0, "13", Nov4,   50 * Cent,  0,        "Income"),
      Tx(0, "13", Nov4,  -50 * Cent, -2 * Cent, "Income"),
      Tx(0, "1",  Nov4,   30 * Cent,  1 * Cent, "Expense"),
      Tx(0, "1",  Nov9,  -60 * Cent, -3 * Cent, "Expense"),
      Tx(0, "1",  Nov99,  70 * Cent,  3 * Cent, "Income") }

ZetaConcept == <<"Z", "e", "t", "a">>

PaymentPool ==
    { Payment(0, ZetaConcept, "", Oct15, -40 * Cent, -2 * Cent),
      Payment(0, ZetaConcept, "13", Nov9, 50 * Cent, 0) }

\* The catalog the application starts with (INITIAL_GUIDES), as far as the
\* flow views distinguish guides.
InitialGuides ==
    << Guide("1", VentasName, FALSE),
       Guide("13", TransferFallbackName, FALSE) >>

StartDates == {Nov2}
EndDates == {Nov4}
SelectedDates == {Nov4, Nov9}

\* Math.random() in hundredths
RandomValues == {0, 75}
RandomSeqs == {<<r>> : r \in RandomValues}

Clock == DaysFromCivil(2024, 11, 5) * 24 + 15

FlowViews == {"DAILY_FLOW", "REAL_WEEKLY_FLOW", "MONTHLY_FLOW", "COMBINED_FLOW",
              "FORECASTED_MONTHLY_FLOW"}
Views == FlowViews \cup {"DASHBOARD", "TRANSACTIONS", "WEEKLY_FLOW", "CATALOGS"}

-----------------------------------------------------------------------------
(* The state machine                                                       *)

\* Date.now().toString(): a string no stored record has yet
FreshId(used) == CHOOSE n \in 1..(Cardinality(used) + 1) : n \notin used

TxIds == {t.id : t \in Range(persistentTransactions) \cup Range(sessionTransactions)}

\* The local state a view component starts with when it is mounted
Mounted(v) ==
    /\ currentView' = v
    /\ startDateFilter' = NULL
    /\ endDateFilter' = NULL
    /\ selectedDate' = NULL
    /\ selectedYear' = GetFullYear(tz, now)
    /\ excludedGuideIds' = {}
    /\ useME' = FALSE

Init ==
    /\ persistentTransactions = <<>>
    /\ sessionTransactions = <<>>
    /\ persistenceEnabled = FALSE
    /\ scheduledPayments = <<>>
    /\ guides = InitialGuides
    /\ currentView = "DASHBOARD"
    /\ startDateFilter = NULL
    /\ endDateFilter = NULL
    /\ selectedDate = NULL
    /\ tz \in TimeZones
    /\ now = Clock
    /\ selectedYear = GetFullYear(tz, now)
    /\ excludedGuideIds = {}
    /\ useME = FALSE
    /\ randomSeq = <<>>
    /\ entries = <<>>
    /\ sortedGuides = <<>>

\* Sidebar: setCurrentView(v) unmounts the view and mounts v; a mounted
\* forecast view computes flowData with fresh Math.random() values, and no
\* other view draws any.
setCurrentView(v) ==
    /\ v # currentView
    /\ Mounted(v)
    /\ IF v = "FORECASTED_MONTHLY_FLOW"
       THEN randomSeq' \in RandomSeqs
       ELSE randomSeq' = <<>>
    /\ UNCHANGED <<storeVars, tz, now>>
    /\ UNCHANGED sortVars

\* currentSetTransactions(prev => [...prev, { ...transaction, id }])
addTransaction(t) ==
    /\ currentView = "TRANSACTIONS"
    /\ Len(transactions) < MaxTx
    /\ LET new == [t EXCEPT !.id = FreshId(TxIds)]
       IN IF persistenceEnabled
          THEN /\ persistentTransactions' = Append(persistentTransactions, new)
               /\ UNCHANGED sessionTransactions
          ELSE /\ sessionTransactions' = Append(sessionTransactions, new)
               /\ UNCHANGED persistentTransactions
    /\ UNCHANGED <<persistenceEnabled, scheduledPayments, guides, viewVars, envVars>>
    /\ UNCHANGED sortVars

\* setScheduledPayments(prev => [...prev, { ...payment, id }])
addScheduledPayment(q) ==
    /\ currentView = "WEEKLY_FLOW"
    /\ Len(scheduledPayments) < MaxPayments
    /\ scheduledPayments' =
          Append(scheduledPayments,
                 [q EXCEPT !.id = FreshId({x.id : x \in Range(scheduledPayments)})])
    /\ UNCHANGED <<persistentTransactions, sessionTransactions, persistenceEnabled,
                   guides, viewVars, envVars>>
    /\ UNCHANGED sortVars

\* deleteCatalogItem('guides', id): setGuides(prev => prev.filter(item => item.id !== id))
deleteCatalogItem(id) ==
    /\ currentView = "CATALOGS"
    /\ \E g \in Range(guides) : g.id = id
    /\ guides' = SelectSeq(guides, LAMBDA item : item.id # id)
    /\ UNCHANGED <<persistentTransactions, sessionTransactions, persistenceEnabled,
                   scheduledPayments, viewVars, envVars>>
    /\ UNCHANGED sortVars

setStartDateFilter(d) ==
    /\ currentView \in {"DAILY_FLOW", "COMBINED_FLOW"}
    /\ startDateFilter' = d
    /\ UNCHANGED <<storeVars, currentView, endDateFilter, selectedDate,
                   selectedYear, excludedGuideIds, useME, envVars>>
    /\ UNCHANGED sortVars

setEndDateFilter(d) ==
    /\ currentView \in {"DAILY_FLOW", "COMBINED_FLOW"}
    /\ endDateFilter' = d
    /\ UNCHANGED <<storeVars, currentView, startDateFilter, selectedDate,
                   selectedYear, excludedGuideIds, useME, envVars>>
    /\ UNCHANGED sortVars

setSelectedDate(d) ==
    /\ currentView = "REAL_WEEKLY_FLOW"
    /\ selectedDate' = d
    /\ UNCHANGED <<storeVars, currentView, startDateFilter, endDateFilter,
                   selectedYear, excludedGuideIds, useME, envVars>>
    /\ UNCHANGED sortVars

\* setSelectedYear(y => y - 1), setSelectedYear(y => y + 1)
setSelectedYear(delta) ==
    /\ currentView \in {"MONTHLY_FLOW", "FORECASTED_MONTHLY_FLOW"}
    /\ selectedYear + delta >= GetFullYear(tz, now)
    /\ selectedYear + delta <= GetFullYear(tz, now) + YearSpan
    /\ selectedYear' = selectedYear + delta
    /\ IF currentView = "FORECASTED_MONTHLY_FLOW"
       THEN randomSeq' \in RandomSeqs
       ELSE randomSeq' = randomSeq
    /\ UNCHANGED <<storeVars, currentView, startDateFilter, endDateFilter,
                   selectedDate, excludedGuideIds, useME, tz, now>>
    /\ UNCHANGED sortVars

setUseME ==
    /\ currentView \in FlowViews
    /\ useME' = ~useME
    /\ IF currentView = "FORECASTED_MONTHLY_FLOW"
       THEN randomSeq' \in RandomSeqs
       ELSE randomSeq' = randomSeq
    /\ UNCHANGED <<storeVars, currentView, startDateFilter, endDateFilter,
                   selectedDate, selectedYear, excludedGuideIds, tz, now>>
    /\ UNCHANGED sortVars

\* The rows of the forecast table: a guide with a positive cell is listed
\* in the income section, one with a negative cell in the expense section,
\* each with its exclusion checkbox
ForecastRows(fd) ==
    {g \in DOMAIN fd.dataByGuide :
        \E m \in DOMAIN fd.dataByGuide[g] : fd.dataByGuide[g][m].amount # 0}

\* handleToggleExclusion(guideId): the checkbox of a listed row
handleToggleExclusion(guideId) ==
    /\ currentView = "FORECASTED_MONTHLY_FLOW"
    /\ guideId \in ForecastRows(
            ForecastFlowData(transactions, guides, excludedGuideIds,
                             selectedYear, useME, tz, randomSeq))
    /\ excludedGuideIds' = IF guideId \in excludedGuideIds
                           THEN excludedGuideIds \ {guideId}
                           ELSE excludedGuideIds \cup {guideId}
    /\ randomSeq' \in RandomSeqs
    /\ UNCHANGED <<storeVars, currentView, startDateFilter, endDateFilter,
                   selectedDate, selectedYear, useME, tz, now>>
    /\ UNCHANGED sortVars

Next ==
    \/ \E v \in Views : setCurrentView(v)
    \/ \E t \in TxPool : addTransaction(t)
    \/ \E q \in PaymentPool : addScheduledPayment(q)
    \/ \E id \in {"1", "13"} : deleteCatalogItem(id)
    \/ \E d \in StartDates \cup {NULL} : setStartDateFilter(d)
    \/ \E d \in EndDates \cup {NULL} : setEndDateFilter(d)
    \/ \E d \in SelectedDates \cup {NULL} : setSelectedDate(d)
    \/ \E delta \in {-1, 1} : setSelectedYear(delta)
    \/ setUseME

Spec == Init /\ [][Next]_vars

-----------------------------------------------------------------------------
(* The table the mounted view shows                                        *)

\* The table the mounted view computes from a transaction list and a
\* scheduled-payment list when the clock reads clock and Math.random()
\* returns the values of rnd
flowDataAt(txs, pays, clock, rnd) ==
    CASE currentView = "DAILY_FLOW" ->
            DailyFlowData(txs, guides, startDateFilter, endDateFilter, useME, tz)
      [] currentView = "REAL_WEEKLY_FLOW" ->
            RealWeeklyFlowData(txs, guides, selectedDate, useME, tz, clock)
      [] currentView = "MONTHLY_FLOW" ->
            MonthlyFlowData(txs, guides, selectedYear, useME, tz)
      [] currentView = "COMBINED_FLOW" ->
            CombinedFlowData(txs, pays, guides, startDateFilter, endDateFilter,
                             useME, tz, clock)
      [] currentView = "FORECASTED_MONTHLY_FLOW" ->
            ForecastFlowData(txs, guides, excludedGuideIds, selectedYear,
                             useME, tz, rnd)

flowDataOf(txs, pays) == flowDataAt(txs, pays, now, randomSeq)

flowData == flowDataOf(transactions, scheduledPayments)

BalanceViews == FlowViews

\* The 'Saldo Inicial' and 'Saldo Final' rows of a table
SaldoInicialRow(fd) == OpeningRow(fd.initialBalance, fd.dates, fd.totals)
SaldoFinalRow(fd) == ClosingRow(fd.initialBalance, fd.dates, fd.totals)

\* totals.get(bucket)?.net || 0
NetOf(totals, b) == IF b \in DOMAIN totals THEN totals[b].net ELSE 0

-----------------------------------------------------------------------------
(* Claims                                                                  *)

TypeMismatch(t) == (t.type = "Income") # (t.amountMN >= 0)

\* C2: in the daily, weekly, monthly and combined views every bucket's
\* income total plus its expense total equals its net total, also for
\* transactions whose type disagrees with the amount's sign and for
\* transfer-category items.
C2_NetConservation ==
    currentView \in {"DAILY_FLOW", "REAL_WEEKLY_FLOW", "MONTHLY_FLOW", "COMBINED_FLOW"}
        => LET totals == flowData.totals
           IN \A b \in DOMAIN totals :
                 totals[b].income + totals[b].expense = totals[b].net

\* A table whose one bucket holds a transfer item and a record whose type
\* disagrees with its sign, with both an income and an expense total.
C2_Witness ==
    /\ currentView \in {"DAILY_FLOW", "REAL_WEEKLY_FLOW", "MONTHLY_FLOW", "COMBINED_FLOW"}
    /\ \E i, j \in DOMAIN transactions :
          /\ transactions[i].guide = transferGuideId
          /\ transactions[j].guide # transferGuideId
          /\ TypeMismatch(transactions[j])
          /\ transactions[i].date = transactions[j].date
    /\ LET totals == flowData.totals
       IN \E b \in DOMAIN totals : totals[b].income # 0 /\ totals[b].expense # 0

\* C3: in every view with a balance row the first opening balance is
\* initialBalance, each closing balance is the bucket's opening balance
\* plus its net and is the next bucket's opening balance, and the last
\* closing balance is initialBalance plus the sum of all buckets' net.
C3_BalanceContinuity ==
    currentView \in BalanceViews =>
        LET fd == flowData
            n == Len(fd.dates)
            net == [i \in 1..n |-> NetOf(fd.totals, fd.dates[i])]
            opening == SaldoInicialRow(fd)
            closing == SaldoFinalRow(fd)
        IN /\ Len(opening) = n /\ Len(closing) = n
           /\ n > 0 => opening[1] = fd.initialBalance
           /\ \A i \in 1..n : closing[i] = opening[i] + net[i]
           /\ \A i \in 1..(n - 1) : closing[i] = opening[i + 1]
           /\ n > 0 => closing[n] = fd.initialBalance + SumOver(net, 1..n)

\* A table of several buckets, two of them with a net, after a nonzero
\* initial balance.
C3_Witness ==
    /\ currentView \in BalanceViews
    /\ LET fd == flowData
       IN /\ fd.initialBalance # 0
          /\ \E i, j \in 1..Len(fd.dates) :
                /\ i < j
                /\ NetOf(fd.totals, fd.dates[i]) # 0
                /\ NetOf(fd.totals, fd.dates[j]) # 0

TransferViews == {"DAILY_FLOW", "REAL_WEEKLY_FLOW", "MONTHLY_FLOW", "COMBINED_FLOW"}

\* The bucket of the mounted view's table fd that a record dated d is
\* accumulated into
BucketKey(fd, d) ==
    CASE currentView \in {"DAILY_FLOW", "COMBINED_FLOW"} -> d
      [] currentView = "REAL_WEEKLY_FLOW" ->
            IF fd.isDaily THEN d ELSE getWeekStartDate(d, now)
      [] currentView \in {"MONTHLY_FLOW", "FORECASTED_MONTHLY_FLOW"} -> MonthKey(d)

\* The records of the transfer category that the mounted view reads
TransferTxs == SelectSeq(transactions, LAMBDA t : t.guide = transferGuideId)
TransferPayments ==
    IF currentView = "COMBINED_FLOW"
    THEN SelectSeq(scheduledPayments, LAMBDA q : q.guide = transferGuideId)
    ELSE <<>>

\* The summed amount of the transfer-category records of bucket b
TransferNet(fd, b) ==
    LET ta == [i \in DOMAIN TransferTxs |-> AmountOf(TransferTxs[i], useME)]
        pa == [i \in DOMAIN TransferPayments |->
                  IF useME THEN TransferPayments[i].amountME
                  ELSE TransferPayments[i].amount]
    IN SumOver(ta, {i \in DOMAIN ta : BucketKey(fd, TransferTxs[i].date) = b})
       + SumOver(pa, {i \in DOMAIN pa : BucketKey(fd, TransferPayments[i].date) = b})

IncomeOf(totals, b) == IF b \in DOMAIN totals THEN totals[b].income ELSE 0
ExpenseOf(totals, b) == IF b \in DOMAIN totals THEN totals[b].expense ELSE 0

\* C4: in the daily, weekly, monthly and combined views the transfer-category
\* (id 13) records of a bucket add exactly their summed amount to the
\* bucket's income total and nothing to its expense total: compared with the
\* table of the same records without the transfer ones, the expense total is
\* the same and the income total is larger by the transfers' sum.
C4_TransferToIncomeOnly ==
    currentView \in TransferViews =>
        LET fd == flowData
            without == flowDataOf(
                SelectSeq(transactions, LAMBDA t : t.guide # transferGuideId),
                SelectSeq(scheduledPayments, LAMBDA q : q.guide # transferGuideId))
        IN \A b \in DOMAIN fd.totals :
              /\ fd.totals[b].expense = ExpenseOf(without.totals, b)
              /\ fd.totals[b].income
                    = IncomeOf(without.totals, b) + TransferNet(fd, b)

\* The categories' rows of a table, and a row's cell for a bucket (0 when
\* the row has no cell): what the table body renders
RowsOf(fd) ==
    IF currentView = "COMBINED_FLOW" THEN fd.dataByConcept ELSE fd.dataByGuide
CellOf(fd, c, b) ==
    LET row == RowsOf(fd)[c]
    IN IF b \notin DOMAIN row THEN 0
       ELSE CASE currentView = "COMBINED_FLOW" -> row[b].net
              [] currentView = "FORECASTED_MONTHLY_FLOW" -> row[b].amount
              [] OTHER -> row[b]

\* C6: in every view, for every bucket of the bucket sequence, the bucket's
\* net total is the sum of the category rows' cells for that bucket, also
\* when the transfer id 13 or another referenced id is not in the catalog.
C6_TotalsMatchRows ==
    currentView \in FlowViews =>
        LET fd == flowData
            rows == DOMAIN RowsOf(fd)
        IN \A i \in 1..Len(fd.dates) :
              LET b == fd.dates[i]
                  cells == [c \in rows |-> CellOf(fd, c, b)]
              IN NetOf(fd.totals, b) = SumOver(cells, rows)

\* The rows of the forecast view's expense section (sortedExpenseGuides):
\* the guides with a negative cell
ExpenseSection(fd) ==
    {g \in DOMAIN fd.dataByGuide :
        \E m \in DOMAIN fd.dataByGuide[g] : fd.dataByGuide[g][m].amount < 0}

\* The forecast view's rows other than the transfer category that have a
\* cell for month m
OtherRows(fd, m) ==
    {g \in DOMAIN fd.dataByGuide : g # transferGuideId /\ m \in DOMAIN fd.dataByGuide[g]}

\* C5: the forecast view special-cases the transfer category 13 as the other
\* views do: in an actual month the month's transfer net goes to the income
\* total and never to the expense total, so the expense total is the sum of
\* the other rows' negative cells, and the category is no row of the expense
\* section.
C5_ForecastTransferSpecialCase ==
    currentView = "FORECASTED_MONTHLY_FLOW" =>
        LET fd == flowData
        IN /\ transferGuideId \notin ExpenseSection(fd)
           /\ \A m \in DOMAIN fd.totals :
                 ~fd.totals[m].isForecast =>
                    LET cells == [g \in OtherRows(fd, m) |-> fd.dataByGuide[g][m].amount]
                    IN /\ fd.totals[m].expense
                            = SumOver(cells, {g \in DOMAIN cells : cells[g] < 0})
                       /\ fd.totals[m].income
                            = SumOver(cells, {g \in DOMAIN cells : cells[g] > 0})
                              + TransferNet(fd, m)

\* The sum of the cells stored for guide g in the forecast months
ForecastSum(fd, g) ==
    IF g \notin DOMAIN fd.dataByGuide THEN 0
    ELSE LET row == fd.dataByGuide[g]
             cells == [m \in DOMAIN row |-> row[m].amount]
         IN SumOver(cells, {m \in DOMAIN row : row[m].isForecast})

Tolerance == Cent \div 10000    \* 1e-6, rounded down to whole model units

\* C1: in the forecast view, for every active guide other than Aguinaldo, PTU
\* and VAT whose monthly average A has |A| >= 0.01, and a selected year with
\* N >= 1 forecast months, the cells stored for the guide in the forecast
\* months sum to A x N (within 1e-6), whatever variations were drawn.
C1_ForecastReconciles ==
    currentView = "FORECASTED_MONTHLY_FLOW" =>
        LET fd == flowData
            avg == monthlyAverages(transactions, guides, excludedGuideIds,
                                   selectedYear, useME, tz)
            N == Cardinality({m \in DOMAIN fd.totals : fd.totals[m].isForecast})
            special == {aguinaldoGuideId(guides), ptuGuideId(guides), vatGuideId(guides)}
        IN \A g \in activeGuideIds(guides, excludedGuideIds) \ special :
              (Abs(GetOr0(avg, g)) >= Cent /\ N >= 1)
                  => Abs(ForecastSum(fd, g) - avg[g] * N) <= Tolerance

Day(s) == DaysFromCivil(s[1], s[2], s[3])

\* The dates of the records the mounted view reads that lie in its date range
InRangeDates(fd) ==
    LET txd == {t.date : t \in Range(ValidDated(transactions))}
        pd == {q.date : q \in Range(ValidDated(scheduledPayments))}
    IN CASE currentView = "DAILY_FLOW" ->
               {d \in txd : filterByDate(d, startDateFilter, endDateFilter)}
         [] currentView = "COMBINED_FLOW" ->
               {d \in txd \cup pd : filterByDate(d, startDateFilter, endDateFilter)}
         [] currentView = "REAL_WEEKLY_FLOW" ->
               IF selectedDate = NULL THEN txd
               ELSE {d \in txd : getWeekStartDate(d, now)
                                    = getWeekStartDate(selectedDate, now)}

Earliest(ds) == CHOOSE d \in ds : \A e \in ds : Day(d) <= Day(e)
Latest(ds) == CHOOSE d \in ds : \A e \in ds : Day(e) <= Day(d)

\* C7: the bucket sequence of the daily and combined views (days) and of the
\* weekly view (weeks from Saturday) has no gaps: consecutive buckets are
\* one day (seven days) apart, the first bucket is the range start, the last
\* covers the range end, and every record in the range has its bucket key in
\* the sequence.
C7_BucketsComplete ==
    currentView \in {"DAILY_FLOW", "COMBINED_FLOW", "REAL_WEEKLY_FLOW"} =>
        LET fd == flowData
            n == Len(fd.dates)
            inRange == InRangeDates(fd)
            weekly == currentView = "REAL_WEEKLY_FLOW"
            step == IF weekly /\ ~fd.isDaily THEN 7 ELSE 1
            rangeStart ==
                IF weekly
                THEN getWeekStartDate(IF selectedDate # NULL THEN selectedDate
                                      ELSE Earliest(inRange), now)
                ELSE IF startDateFilter # NULL THEN startDateFilter
                ELSE Earliest(inRange)
            rangeEnd ==
                IF ~weekly /\ endDateFilter # NULL THEN endDateFilter
                ELSE Latest(inRange)
        IN inRange # {} =>
              /\ n > 0
              /\ \A i \in 1..(n - 1) : Day(fd.dates[i + 1]) = Day(fd.dates[i]) + step
              /\ fd.dates[1] = rangeStart
              /\ Day(fd.dates[n]) + step - 1 >= Day(rangeEnd)
              /\ \A d \in inRange : BucketKey(fd, d) \in Range(fd.dates)

\* Every day from start to end inclusive
DaysFromTo(start, end) ==
    [i \in 1..(Day(end) - Day(start) + 1) |-> CivilFromDays(Day(start) + i - 1)]

\* C10: in the daily and combined views, with no record at all and an
\* explicit start and end filter, the bucket sequence is every day from
\* start to end, every bucket's income, expense and net are 0, and
\* initialBalance is 0.
C10_EmptyRangeSpansFilter ==
    (/\ currentView \in {"DAILY_FLOW", "COMBINED_FLOW"}
     /\ transactions = <<>>
     /\ currentView = "COMBINED_FLOW" => scheduledPayments = <<>>
     /\ startDateFilter # NULL /\ endDateFilter # NULL)
        => LET fd == flowData
           IN /\ fd.dates = DaysFromTo(startDateFilter, endDateFilter)
              /\ \A i \in DOMAIN fd.dates :
                    /\ fd.dates[i] \in DOMAIN fd.totals
                    /\ fd.totals[fd.dates[i]] = [income |-> 0, expense |-> 0, net |-> 0]
              /\ fd.initialBalance = 0

\* The records the mounted view aggregates, as <<date, amount>> pairs: the
\* transactions with a parsable date and, in the combined view, the
\* scheduled payments with one
AggregatedRecords ==
    LET txs == ValidDated(transactions)
        pays == IF currentView = "COMBINED_FLOW"
                THEN ValidDated(scheduledPayments) ELSE <<>>
    IN [i \in DOMAIN txs |-> <<txs[i].date, AmountOf(txs[i], useME)>>]
       \o [i \in DOMAIN pays |->
              <<pays[i].date, IF useME THEN pays[i].amountME ELSE pays[i].amount>>]

\* C11: in the daily, weekly and combined views, initialBalance is the sum of
\* the selected amount field over the records the view aggregates
\* (transactions, and scheduled payments too in the combined view) that are
\* dated strictly before the first bucket; 0 when none precedes it.
C11_InitialBalanceBeforeRange ==
    currentView \in {"DAILY_FLOW", "REAL_WEEKLY_FLOW", "COMBINED_FLOW"} =>
        LET fd == flowData
            recs == AggregatedRecords
            amounts == [i \in DOMAIN recs |-> recs[i][2]]
        IN Len(fd.dates) > 0 =>
              fd.initialBalance
                 = SumOver(amounts, {i \in DOMAIN recs :
                                       Day(recs[i][1]) < Day(fd.dates[1])})

\* C12: in every view, the forecast view included, a record whose date is
\* unparsable contributes to no bucket, no total and no initial balance and
\* changes nothing else: the table (bucket sequence, rows, totals with their
\* Actual/Forecast marks, initial balance) is the table of the store without
\* the records of unparsable date.
C12_UnparsableDatesIgnored ==
    currentView \in FlowViews =>
        flowData = flowDataOf(ValidDated(transactions), ValidDated(scheduledPayments))

\* The same hour of the next day
ClockNextDay == Clock + 24

\* The cell of guide g for month m in a forecast table, 0 when there is none
ForecastCell(fd, g, m) ==
    IF g \in DOMAIN fd.dataByGuide /\ m \in DOMAIN fd.dataByGuide[g]
    THEN fd.dataByGuide[g][m].amount ELSE 0

\* C13: for fixed records, catalog, filters and amount field, the daily,
\* weekly, monthly and combined views compute the same table whatever the
\* wall clock reads; two evaluations of the forecast view can differ only in
\* the forecast-month cells of the randomly varied guides and of VAT: the
\* actual-month cells, the cells of Aguinaldo and PTU, the initial balance and
\* each varied guide's yearly forecast sum are the same.
C13_SameInputsSameTable ==
    LET fd == flowData
    IN /\ currentView \in {"DAILY_FLOW", "REAL_WEEKLY_FLOW", "MONTHLY_FLOW",
                            "COMBINED_FLOW"}
            => flowDataAt(transactions, scheduledPayments, ClockNextDay, randomSeq) = fd
       /\ currentView = "FORECASTED_MONTHLY_FLOW"
            => \A rnd \in RandomSeqs :
                  LET other == flowDataAt(transactions, scheduledPayments, now, rnd)
                      all == DOMAIN fd.dataByGuide \cup DOMAIN other.dataByGuide
                      fixed == {aguinaldoGuideId(guides), ptuGuideId(guides)}
                      vat == vatGuideId(guides)
                  IN /\ other.dates = fd.dates
                     /\ other.initialBalance = fd.initialBalance
                     /\ \A m \in DOMAIN fd.totals :
                           /\ other.totals[m].isForecast = fd.totals[m].isForecast
                           /\ \A g \in all :
                                 (~fd.totals[m].isForecast \/ g \in fixed)
                                    => ForecastCell(other, g, m) = ForecastCell(fd, g, m)
                     /\ \A g \in all \ {vat} :
                           ForecastSum(other, g) = ForecastSum(fd, g)

\* C14: in the daily, weekly and monthly views every bucket's expense total
\* is <= 0, and its income total is >= 0 when the bucket holds no
\* transfer-category item, whatever the transactions' type fields say.
C14_TotalsSigns ==
    currentView \in {"DAILY_FLOW", "REAL_WEEKLY_FLOW", "MONTHLY_FLOW"} =>
        LET fd == flowData
            transferBuckets ==
                {BucketKey(fd, TransferTxs[i].date) : i \in DOMAIN TransferTxs}
        IN \A b \in DOMAIN fd.totals :
              /\ fd.totals[b].expense <= 0
              /\ b \notin transferBuckets => fd.totals[b].income >= 0

\* The months of the calendar, counted from year 0
MonthIndex(m) == m[1] * 12 + m[2]

\* C15: in the forecast view each month of the selected year is Actual or
\* Forecast; it is Forecast iff it is later than the month of the latest
\* transaction, so the Actual months are a prefix of the year and the
\* Forecast months a suffix; every cell of an Actual month is the sum of the
\* guide's real amounts of that month and is not marked as forecast; a
\* Forecast month holds no real transaction and only cells marked as
\* forecast.
C15_ActualThenForecast ==
    currentView = "FORECASTED_MONTHLY_FLOW" =>
        LET fd == flowData
            txs == transactions
            dated == {t.date : t \in Range(ValidDated(txs))}
            later(m) == dated = {} \/ MonthIndex(m) > MonthIndex(MonthKey(Latest(dated)))
            amt == [i \in DOMAIN txs |-> AmountOf(txs[i], useME)]
            realIn(g, m) == {i \in DOMAIN txs : txs[i].guide = g /\ MonthKey(txs[i].date) = m}
        IN /\ Len(fd.dates) = 12
           /\ \A k \in 1..12 :
                 LET m == fd.dates[k]
                 IN /\ fd.totals[m].isForecast = later(m)
                    /\ (k < 12 /\ fd.totals[m].isForecast)
                          => fd.totals[fd.dates[k + 1]].isForecast
                    /\ \A g \in DOMAIN fd.dataByGuide :
                          m \in DOMAIN fd.dataByGuide[g] =>
                             LET cell == fd.dataByGuide[g][m]
                             IN /\ cell.isForecast = fd.totals[m].isForecast
                                /\ ~cell.isForecast =>
                                      /\ realIn(g, m) # {}
                                      /\ cell.amount = SumOver(amt, realIn(g, m))
                    /\ \A i \in DOMAIN txs :
                          MonthKey(txs[i].date) = m =>
                             /\ ~fd.totals[m].isForecast
                             /\ txs[i].guide \in DOMAIN fd.dataByGuide
                             /\ m \in DOMAIN fd.dataByGuide[txs[i].guide]

\* C16: the trailing monthly average of an active category is the sum of its
\* amounts over exactly the 3 calendar months before the last real month
\* (nothing of the last real month or of earlier months), divided by the
\* number of distinct months with data in that window, at least 1 and at
\* most 3.
C16_TrailingAverageWindow ==
    currentView = "FORECASTED_MONTHLY_FLOW" =>
        LET txs == transactions
            base == baseMonthlyAverages(txs, guides, excludedGuideIds, useME, tz)
            dated == {t.date : t \in Range(ValidDated(txs))}
            last == MonthIndex(MonthKey(Latest(dated)))
            amt == [i \in DOMAIN txs |-> AmountOf(txs[i], useME)]
            inWindow == {i \in DOMAIN txs :
                            /\ IsDateString(txs[i].date)
                            /\ txs[i].guide \in activeGuideIds(guides, excludedGuideIds)
                            /\ txs[i].guide # initialBalanceGuideId(guides)
                            /\ MonthIndex(MonthKey(txs[i].date)) \in
                                  (last - 3)..(last - 1)}
            monthsWithData == {MonthKey(txs[i].date) : i \in inWindow}
            divisor == IF monthsWithData = {} THEN 1 ELSE Cardinality(monthsWithData)
        IN dated # {} =>
             /\ divisor \in 1..3
             /\ \A g \in activeGuideIds(guides, excludedGuideIds) :
                   GetOr0(base, g) =
                      Quot(SumOver(amt, {i \in inWindow : txs[i].guide = g}), divisor)

-----------------------------------------------------------------------------
(* The week picker of the weekly view, over a year of dates                *)

FirstWeekDay == DaysFromCivil(2023, 12, 25)
WeekDaySpan == 380
WeekDates == {CivilFromDays(FirstWeekDay + k) : k \in 0..(WeekDaySpan - 1)}

NextWeek ==
    \/ \E v \in {"DASHBOARD", "REAL_WEEKLY_FLOW"} : setCurrentView(v)
    \/ \E d \in WeekDates \cup {NULL} : setSelectedDate(d)

SpecWeek == Init /\ [][NextWeek]_vars

\* const selectedWeekStart = selectedDate ? getWeekStartDate(selectedDate) : null
selectedWeekStart ==
    IF selectedDate # NULL THEN getWeekStartDate(selectedDate, now) ELSE NULL

Jan6 == <<2024, 1, 6>>
Jan12 == <<2024, 1, 12>>

\* C8: for every valid date d, getWeekStartDate(d) is a Saturday on or before
\* d and at most 6 days before it (2024-01-06 and 2024-01-12 both give
\* 2024-01-06), applying it again changes nothing, and the result is the same
\* in every local timezone.
C8_WeekStartIsSaturday ==
    (currentView = "REAL_WEEKLY_FLOW" /\ selectedDate # NULL) =>
        LET s == selectedWeekStart
        IN /\ IsDateString(s)
           /\ (Day(s) + 4) % 7 = 6
           /\ Day(s) <= Day(selectedDate)
           /\ Day(selectedDate) - Day(s) <= 6
           /\ getWeekStartDate(s, now) = s
           /\ selectedDate \in {Jan6, Jan12} => s = Jan6

\* The week of a Friday was computed in a timezone west of UTC.
C8_Witness ==
    /\ currentView = "REAL_WEEKLY_FLOW"
    /\ tz = "America/New_York"
    /\ selectedDate = Jan12
    /\ selectedWeekStart = Jan6

-----------------------------------------------------------------------------
(* The row order: Array.from(map.entries()).sort(comparator)               *)

\* String.prototype.localeCompare under the root collation, for the
\* characters names are written with here: blank, then hyphen, then digits,
\* then letters; letters differing only in case compare at the last level,
\* lower case first.
LowerCase == <<"a", "b", "c", "d", "e", "f", "g", "h", "i", "j", "k", "l", "m",
               "n", "o", "p", "q", "r", "s", "t", "u", "v", "w", "x", "y", "z">>
UpperCase == <<"A", "B", "C", "D", "E", "F", "G", "H", "I", "J", "K", "L", "M",
               "N", "O", "P", "Q", "R", "S", "T", "U", "V", "W", "X", "Y", "Z">>
Collation == <<" ", "-", "0", "1", "2", "3", "4", "5", "6", "7", "8", "9">> \o LowerCase

IsUpper(c) == \E i \in DOMAIN UpperCase : UpperCase[i] = c
ToLower(c) ==
    IF IsUpper(c) THEN LowerCase[CHOOSE i \in DOMAIN UpperCase : UpperCase[i] = c] ELSE c
PrimaryWeight(c) == CHOOSE i \in DOMAIN Collation : Collation[i] = ToLower(c)

\* The sign of the first difference of two weight sequences; a proper prefix
\* comes first
RECURSIVE CompareWeights(_, _)
CompareWeights(x, y) ==
    IF x = <<>> /\ y = <<>> THEN 0
    ELSE IF x = <<>> THEN -1
    ELSE IF y = <<>> THEN 1
    ELSE IF Head(x) < Head(y) THEN -1
    ELSE IF Head(x) > Head(y) THEN 1
    ELSE CompareWeights(Tail(x), Tail(y))

localeCompare(a, b) ==
    LET primary == CompareWeights([i \in DOMAIN a |-> PrimaryWeight(a[i])],
                                  [i \in DOMAIN b |-> PrimaryWeight(b[i])])
    IN IF primary # 0 THEN primary
       ELSE CompareWeights([i \in DOMAIN a |-> IF IsUpper(a[i]) THEN 1 ELSE 0],
                           [i \in DOMAIN b |-> IF IsUpper(b[i]) THEN 1 ELSE 0])

\* The value getNum gives a name without a numeric prefix; no parsed number
\* equals it
Infinity == 0 - 1

\* parseInt(digits, 10)
RECURSIVE ParseInt(_)
ParseInt(ds) ==
    IF ds = <<>> THEN 0
    ELSE ParseInt(SubSeq(ds, 1, Len(ds) - 1)) * 10 + DigitValue(ds[Len(ds)])

\* getNum with the prefix never recognised: every name compared as text
getNumNoPrefix(name) == Infinity

\* const match = name.match(/^(\d+)-/); match ? parseInt(match[1], 10) : Infinity
getNum(name) ==
    LET k == IF \E i \in DOMAIN name : name[i] \notin Digits
             THEN (CHOOSE i \in DOMAIN name :
                      name[i] \notin Digits /\ \A j \in 1..(i - 1) : name[j] \in Digits) - 1
             ELSE Len(name)
    IN IF k >= 1 /\ k < Len(name) /\ name[k + 1] = "-"
       THEN ParseInt(SubSeq(name, 1, k)) ELSE Infinity

\* The comparator's body, shared by the three copies below
CompareNames(nameA, nameB) ==
    LET numA == getNum(nameA)
        numB == getNum(nameB)
    IN IF numA # Infinity /\ numB # Infinity /\ numA # numB THEN numA - numB
       ELSE IF numA # Infinity /\ numB = Infinity THEN -1
       ELSE IF numA = Infinity /\ numB # Infinity THEN 1
       ELSE localeCompare(nameA, nameB)

sortGuidesByName(a, b) == CompareNames(a, b)
sortConceptsByName(a, b) == CompareNames(a, b)

\* getGuide(id)?.name || ''
GuideNameOrEmpty(gs, id) ==
    IF GuideMapGet(gs, id) = NULL THEN <<>> ELSE GuideMapGet(gs, id)
sortGuidesById(a, b) ==
    CompareNames(GuideNameOrEmpty(guides, a), GuideNameOrEmpty(guides, b))

\* The comparator of the mounted view, and the name a row key is shown by
Comparator(a, b) ==
    CASE currentView = "COMBINED_FLOW" -> sortConceptsByName(a, b)
      [] currentView = "FORECASTED_MONTHLY_FLOW" -> sortGuidesById(a, b)
      [] OTHER -> sortGuidesByName(a, b)
RowName(key) ==
    IF currentView = "FORECASTED_MONTHLY_FLOW" THEN GuideNameOrEmpty(guides, key)
    ELSE key

\* Array.prototype.sort(Comparator): a stable sort
RECURSIVE InsertRow(_, _)
InsertRow(x, s) ==
    IF s = <<>> THEN <<x>>
    ELSE IF Comparator(x, Head(s)) < 0 THEN <<x>> \o s
    ELSE <<Head(s)>> \o InsertRow(x, Tail(s))
RECURSIVE SortRows(_)
SortRows(s) ==
    IF s = <<>> THEN <<>>
    ELSE InsertRow(s[Len(s)], SortRows(SubSeq(s, 1, Len(s) - 1)))

-----------------------------------------------------------------------------
(* Sorting the rows of a table, over lists of names                        *)

MaxRows == 3

Foo2 == <<"2", "-", "F", "o", "o">>
Bar10 == <<"1", "0", "-", "B", "a", "r">>

RowNames ==
    { Foo2, Bar10, ZetaConcept,
      <<"2", "-", "f", "o", "o">>,         \* differs from 2-Foo in case only
      <<"0", "2", "-", "F", "o", "o">>,    \* the same number as 2-Foo
      <<"2", "F", "o", "o">>,              \* digits without the hyphen
      <<"a", "l", "f", "a">> }

\* The lists of n distinct names
RECURSIVE DistinctLists(_)
DistinctLists(n) ==
    IF n = 0 THEN {<<>>}
    ELSE {Append(lx[1], lx[2]) :
            lx \in {ly \in DistinctLists(n - 1) \X RowNames : ly[2] \notin Range(ly[1])}}

RowLists == UNION {DistinctLists(n) : n \in 0..MaxRows}

\* A table about to be rendered: the catalog holds the names, the map's
\* entries are keyed by name (daily, combined) or by guide id (forecast).
InitSort ==
    /\ persistentTransactions = <<>>
    /\ sessionTransactions = <<>>
    /\ persistenceEnabled = FALSE
    /\ scheduledPayments = <<>>
    /\ currentView \in {"DAILY_FLOW", "COMBINED_FLOW", "FORECASTED_MONTHLY_FLOW"}
    /\ startDateFilter = NULL
    /\ endDateFilter = NULL
    /\ selectedDate = NULL
    /\ tz = "UTC"
    /\ now = Clock
    /\ selectedYear = GetFullYear(tz, now)
    /\ excludedGuideIds = {}
    /\ useME = FALSE
    /\ randomSeq = <<>>
    /\ \E names \in RowLists :
          /\ guides = [i \in DOMAIN names |-> Guide(ToString(i), names[i], FALSE)]
          /\ entries = IF currentView = "FORECASTED_MONTHLY_FLOW"
                       THEN [i \in DOMAIN names |-> ToString(i)]
                       ELSE names
    /\ sortedGuides = <<>>

\* Array.from(flowData.dataByGuide.entries()).sort(comparator)
sortEntries ==
    /\ sortedGuides' = SortRows(entries)
    /\ UNCHANGED <<storeVars, viewVars, envVars, entries>>

SpecSort == InitSort /\ [][sortEntries]_vars

\* The numeric prefix of a name: the number written by the digits before
\* the first hyphen when only digits precede it, <<>> when there is none
NumericPrefix(name) ==
    LET ks == {k \in 1..(Len(name) - 1) :
                  /\ name[k + 1] = "-"
                  /\ \A j \in 1..k : name[j] \in Digits}
    IN IF ks = {} THEN <<>> ELSE <<ParseInt(SubSeq(name, 1, CHOOSE k \in ks : TRUE))>>

Reorderings(s) ==
    {p \in [DOMAIN s -> Range(s)] : \A i, j \in DOMAIN s : i # j => p[i] # p[j]}

RowNamesOf(keys) == [i \in DOMAIN keys |-> RowName(keys[i])]

\* C9: the comparator is a strict weak order on names: a name with a
\* "<N>-" prefix comes before one without, prefixed names are ordered by N
\* as a number ("2-Foo" < "10-Bar" < "Zeta"), the rest alphabetically; it is
\* antisymmetric and transitive, so the sorted order depends only on the
\* names and sorting a sorted list changes nothing.
C9_SortIsStrictWeakOrder ==
    LET K == Range(entries)
        lt(a, b) == Comparator(a, b) < 0
        eq(a, b) == Comparator(a, b) = 0
        pre(a) == NumericPrefix(RowName(a))
    IN /\ \A a \in K : eq(a, a)
       /\ \A a, b \in K :
             /\ lt(a, b) => Comparator(b, a) > 0
             /\ eq(a, b) => eq(b, a) /\ RowName(a) = RowName(b)
             /\ (pre(a) # <<>> /\ pre(b) = <<>>) => lt(a, b)
             /\ (pre(a) # <<>> /\ pre(b) # <<>> /\ pre(a)[1] < pre(b)[1]) => lt(a, b)
             /\ (pre(a) = pre(b) /\ localeCompare(RowName(a), RowName(b)) < 0) => lt(a, b)
             /\ (RowName(a) = Foo2 /\ RowName(b) \in {Bar10, ZetaConcept}) => lt(a, b)
             /\ (RowName(a) = Bar10 /\ RowName(b) = ZetaConcept) => lt(a, b)
       /\ \A a, b, c \in K :
             /\ (lt(a, b) /\ lt(b, c)) => lt(a, c)
             /\ (eq(a, b) /\ eq(b, c)) => eq(a, c)
       /\ Len(sortedGuides) = Len(entries) =>
             /\ Range(sortedGuides) = K
             /\ \A i, j \in DOMAIN sortedGuides :
                   i < j => Comparator(sortedGuides[i], sortedGuides[j]) <= 0
             /\ \A p \in Reorderings(entries) :
                   RowNamesOf(SortRows(p)) = RowNamesOf(sortedGuides)
             /\ SortRows(sortedGuides) = sortedGuides

\* The three names of the example, handed over in the opposite order, were
\* sorted.
C9_Witness ==
    /\ RowNamesOf(entries) = <<ZetaConcept, Bar10, Foo2>>
    /\ RowNamesOf(sortedGuides) = <<Foo2, Bar10, ZetaConcept>>

-----------------------------------------------------------------------------
(* The forecast view over a catalog with payroll, bonus and VAT guides     *)

IvaName == <<"2", "9", "-", "I", "V", "A">>
RentaName == <<"4", "0", "-", "R", "e", "n", "t", "a">>

\* A catalog the user has built in the catalogs view
ForecastGuides ==
    << Guide("1", VentasName, FALSE),
       Guide("19", NominaName, FALSE),
       Guide("20", AguinaldoName, FALSE),
       Guide("22", PtuName, FALSE),
       Guide("29", IvaName, FALSE),
       Guide("40", RentaName, FALSE) >>

\* The same catalog with the rent guide flagged inactive for the forecast
ForecastGuidesRentInactive ==
    [i \in DOMAIN ForecastGuides |->
        IF ForecastGuides[i].id = "40"
        THEN Guide("40", RentaName, TRUE) ELSE ForecastGuides[i]]

\* The same guides, created in the opposite order
ForecastGuidesReversed ==
    [i \in 1..Len(ForecastGuides) |-> ForecastGuides[Len(ForecastGuides) + 1 - i]]

Dec31 == <<2023, 12, 31>>

\* Sales, rent, payroll and VAT in November 2024, a bonus and a profit share
\* paid in October
FullStore ==
    << Tx(1, "1",  Nov4,   580 * Cent,  29 * Cent, "Income"),
       Tx(2, "40", Nov4,  -116 * Cent,  -6 * Cent, "Expense"),
       Tx(3, "19", Nov4,  -200 * Cent, -10 * Cent, "Expense"),
       Tx(4, "20", Oct15,  -30 * Cent,  -2 * Cent, "Expense"),
       Tx(5, "22", Oct15,  -60 * Cent,  -4 * Cent, "Expense"),
       Tx(6, "29", Nov9,   -10 * Cent,  -1 * Cent, "Expense") >>

\* Bonus and profit share with a history of their own, and no payroll
NoPayrollStore ==
    << Tx(1, "1",  Nov4,  580 * Cent,  29 * Cent, "Income"),
       Tx(2, "20", Oct15, -30 * Cent,  -2 * Cent, "Expense"),
       Tx(3, "22", Oct15, -60 * Cent,  -4 * Cent, "Expense") >>

\* More rent than sales: VAT in favour
CreditStore ==
    << Tx(1, "1",  Nov4,  116 * Cent,   6 * Cent, "Income"),
       Tx(2, "40", Nov4, -580 * Cent, -29 * Cent, "Expense"),
       Tx(3, "29", Oct15, 20 * Cent,    1 * Cent, "Income") >>

\* As much rent as sales
BalancedStore ==
    << Tx(1, "1",  Nov4,  116 * Cent,  6 * Cent, "Income"),
       Tx(2, "40", Nov4, -116 * Cent, -6 * Cent, "Expense") >>

\* The only record is of the last day of 2023
YearEndStore ==
    << Tx(1, "1", Dec31, 120 * Cent, 6 * Cent, "Income") >>

\* Payroll and profit share recorded in November 2024 only
PtuStore ==
    << Tx(1, "19", Nov4, -200 * Cent, -10 * Cent, "Expense"),
       Tx(2, "22", Nov4,  -60 * Cent,  -4 * Cent, "Expense") >>

ForecastStores ==
    {<<>>, FullStore, NoPayrollStore, CreditStore, BalancedStore, YearEndStore,
     PtuStore}

\* Nuku'alofa is 13 hours ahead of UTC all year
ForecastZones == TimeZones \cup {"Pacific/Tongatapu"}

\* The rows whose checkbox the model clicks
ToggledGuides == {"19", "29"}

\* The forecast view is mounted over a store and a catalog the user has
\* entered before
InitForecast ==
    /\ persistentTransactions = <<>>
    /\ sessionTransactions \in ForecastStores
    /\ persistenceEnabled = FALSE
    /\ scheduledPayments = <<>>
    /\ guides \in {ForecastGuides, ForecastGuidesReversed, ForecastGuidesRentInactive}
    /\ currentView = "FORECASTED_MONTHLY_FLOW"
    /\ startDateFilter = NULL
    /\ endDateFilter = NULL
    /\ selectedDate = NULL
    /\ tz \in ForecastZones
    /\ now = Clock
    /\ selectedYear = GetFullYear(tz, now)
    /\ excludedGuideIds = {}
    /\ useME = FALSE
    /\ randomSeq \in RandomSeqs
    /\ entries = <<>>
    /\ sortedGuides = <<>>

NextForecast ==
    \/ \E delta \in {-1, 1} : setSelectedYear(delta)
    \/ setUseME
    \/ \E id \in ToggledGuides : handleToggleExclusion(id)

SpecForecast == InitForecast /\ [][NextForecast]_vars

\* C17: when the selected year is beyond the year of the last real
\* transaction, the monthly average used for a category is
\* priorYearTotal / 12 if |average x 12| > |priorYearTotal| and
\* priorYearTotal # 0, and the trailing average otherwise, so its magnitude
\* never exceeds that of the trailing average; when the selected year is not
\* beyond the last real year the trailing average is used unchanged.
C17_DampenedAverage ==
    currentView = "FORECASTED_MONTHLY_FLOW" =>
        LET txs == transactions
            base == baseMonthlyAverages(txs, guides, excludedGuideIds, useME, tz)
            prev == previousYearTotals(txs, guides, excludedGuideIds, selectedYear, useME, tz)
            used == monthlyAverages(txs, guides, excludedGuideIds, selectedYear, useME, tz)
            dated == {t.date : t \in Range(ValidDated(txs))}
            beyond == dated # {} /\ selectedYear > Latest(dated)[1]
        IN /\ DOMAIN used = DOMAIN base
           /\ \A g \in DOMAIN base :
                 LET priorYearTotal == GetOr0(prev, g)
                 IN /\ used[g] = IF /\ beyond
                                    /\ Abs(base[g] * 12) > Abs(priorYearTotal)
                                    /\ priorYearTotal # 0
                                 THEN Quot(priorYearTotal, 12)
                                 ELSE base[g]
                    /\ Abs(used[g]) <= Abs(base[g])

\* Math.random() returning 0.5 at every draw: no variation
NoVariation == <<50>>

\* The total a forecast table posts for guide g over its twelve months
PostedTotal(fd, g) ==
    IF g \notin DOMAIN fd.dataByGuide THEN 0
    ELSE SumOver([m \in DOMAIN fd.dataByGuide[g] |-> fd.dataByGuide[g][m].amount],
                 DOMAIN fd.dataByGuide[g])

\* C18: the prior-year total that dampening compares against is, for each
\* category, the total the forecast view itself posts for that category over
\* the twelve months of the preceding year: real amounts in its actual
\* months plus its forecast values in its forecast months, also when the
\* preceding year is entirely forecast and for the PTU category.
C18_PriorYearTotalIsPosted ==
    currentView = "FORECASTED_MONTHLY_FLOW" =>
        LET txs == transactions
            base == baseMonthlyAverages(txs, guides, excludedGuideIds, useME, tz)
            prev == previousYearTotals(txs, guides, excludedGuideIds, selectedYear, useME, tz)
            dated == {t.date : t \in Range(ValidDated(txs))}
            beyond == dated # {} /\ selectedYear > Latest(dated)[1]
            posted == ForecastFlowData(txs, guides, excludedGuideIds, selectedYear - 1,
                                       useME, tz, NoVariation)
        IN beyond => \A g \in DOMAIN base : GetOr0(prev, g) = PostedTotal(posted, g)

\* C19: among forecast months the Aguinaldo category has a value only in
\* December and the PTU category only in May; the value is negative and its
\* magnitude is half the magnitude of the monthly average of the payroll
\* category (Nomina), whatever history the category itself has and whatever
\* Math.random() returns; there is no value when payroll has no average.
C19_BonusIsHalfPayroll ==
    currentView = "FORECASTED_MONTHLY_FLOW" =>
        \A fd \in {flowData} :
        \A avg \in {monthlyAverages(transactions, guides, excludedGuideIds,
                                     selectedYear, useME, tz)} :
        LET payroll == {g.id : g \in {h \in Range(guides) : h.name = NominaName}}
            payrollAvg == IF payroll \cap DOMAIN avg = {} THEN 0
                          ELSE avg[CHOOSE g \in payroll \cap DOMAIN avg : TRUE]
            bonus == {<<g.id, 12>> : g \in {h \in Range(guides) : h.name = AguinaldoName}}
                     \cup {<<g.id, 5>> : g \in {h \in Range(guides) : h.name = PtuName}}
            active == {g.id : g \in {h \in Range(guides) :
                         ~h.isInactiveForForecast /\ h.id \notin excludedGuideIds}}
        IN \A b \in bonus : \A k \in 1..12 :
              LET m == <<selectedYear, k>>
                  has == b[1] \in DOMAIN fd.dataByGuide /\ m \in DOMAIN fd.dataByGuide[b[1]]
              IN fd.totals[m].isForecast =>
                    /\ has => /\ k = b[2]
                              /\ fd.dataByGuide[b[1]][m].isForecast
                              /\ fd.dataByGuide[b[1]][m].amount < 0
                              /\ fd.dataByGuide[b[1]][m].amount = -(Abs(payrollAvg) \div 2)
                    /\ payrollAvg = 0 => ~has
                    /\ (k = b[2] /\ b[1] \in active /\ Abs(payrollAvg) \div 2 > Cent) => has

\* The forecast of a year after the last real one shows a bonus in December
\* and a profit share in May, both half the dampened payroll average, while
\* the two categories have other averages of their own.
C19_Witness ==
    /\ currentView = "FORECASTED_MONTHLY_FLOW"
    /\ \E fd \in {flowData} :
       \E avg \in {monthlyAverages(transactions, guides, excludedGuideIds,
                                    selectedYear, useME, tz)} :
          /\ {"19", "20", "22"} \subseteq DOMAIN avg
          /\ {"20", "22"} \subseteq DOMAIN fd.dataByGuide
          /\ fd.totals[<<selectedYear, 5>>].isForecast
          /\ DOMAIN fd.dataByGuide["20"] = {<<selectedYear, 12>>}
          /\ DOMAIN fd.dataByGuide["22"] = {<<selectedYear, 5>>}
          /\ fd.dataByGuide["20"][<<selectedYear, 12>>].amount * 2 = avg["19"]
          /\ fd.dataByGuide["22"][<<selectedYear, 5>>].amount * 2 = avg["19"]
          /\ avg["20"] # avg["22"]
          /\ avg["20"] * 2 # avg["19"]
          /\ avg["22"] * 2 # avg["19"]

\* The catalog in the opposite order
Reversed(gs) == [i \in 1..Len(gs) |-> gs[Len(gs) + 1 - i]]

\* The forecast cells of guide g in a table
ForecastCellsOf(fd, g) ==
    IF g \notin DOMAIN fd.dataByGuide THEN EmptyMap
    ELSE [m \in {n \in DOMAIN fd.dataByGuide[g] : fd.totals[n].isForecast} |->
             fd.dataByGuide[g][m].amount]

\* C20: in every forecast month in which the VAT category (name prefixed
\* "29-") is active, its value is
\* -(0.16/1.16) x (taxableIncome - |taxableExpense|), where taxableIncome is
\* the sum of the month's forecast values of the operating-income categories
\* and taxableExpense the sum of the month's negative forecast values of the
\* categories that are neither operating-income nor in the exclusion list;
\* a value of at most 0.01 is not shown. The VAT category's own average and
\* the order of the catalog do not influence it.
C20_VatFromForecastCells ==
    currentView = "FORECASTED_MONTHLY_FLOW" =>
        \A fd \in {flowData} :
        \A other \in {ForecastFlowData(transactions, Reversed(guides), excludedGuideIds,
                                       selectedYear, useME, tz, randomSeq)} :
        \A vat \in {g.id : g \in {h \in Range(guides) :
                        /\ StartsWith(h.name, <<"2", "9", "-">>)
                        /\ ~h.isInactiveForForecast
                        /\ h.id \notin excludedGuideIds}} :
           LET operating == {g.id : g \in {h \in Range(guides) : IsOperatingIncomeName(h.name)}}
               exempt == {g.id : g \in {h \in Range(guides) :
                                           h.name \in excludedExpenseNamesForVat}}
           IN /\ ForecastCellsOf(other, vat) = ForecastCellsOf(fd, vat)
              /\ \A k \in 1..12 :
                    LET m == <<selectedYear, k>>
                        shown == {g \in DOMAIN fd.dataByGuide \ {vat} :
                                     m \in DOMAIN fd.dataByGuide[g]}
                        value == [g \in shown |-> fd.dataByGuide[g][m].amount]
                        taxableIncome == SumOver(value, shown \cap operating)
                        taxableExpense ==
                            SumOver(value, {g \in shown \ (operating \cup exempt) : value[g] < 0})
                        due == (16 * taxableIncome) \div 116
                                 - (16 * Abs(taxableExpense)) \div 116
                        has == vat \in DOMAIN fd.dataByGuide /\ m \in DOMAIN fd.dataByGuide[vat]
                    IN fd.totals[m].isForecast =>
                          /\ has = (Abs(due) > Cent)
                          /\ has => /\ fd.dataByGuide[vat][m].amount = -due
                                    /\ fd.dataByGuide[vat][m].isForecast

\* December 2024 is forecast from sales, rent and payroll; VAT is owed on
\* sales less rent, payroll is left out, and the VAT guide's own average is
\* another amount.
C20_Witness ==
    /\ currentView = "FORECASTED_MONTHLY_FLOW"
    /\ \E fd \in {flowData} :
       \E avg \in {monthlyAverages(transactions, guides, excludedGuideIds,
                                    selectedYear, useME, tz)} :
       \E m \in {<<selectedYear, 12>>} :
          /\ fd.totals[m].isForecast
          /\ \A g \in {"1", "19", "29", "40"} :
                g \in DOMAIN fd.dataByGuide /\ m \in DOMAIN fd.dataByGuide[g]
          /\ "29" \in DOMAIN avg
          /\ fd.dataByGuide["1"][m].amount > 0
          /\ fd.dataByGuide["40"][m].amount < 0
          /\ fd.dataByGuide["19"][m].amount < 0
          /\ fd.dataByGuide["29"][m].amount < 0
          /\ fd.dataByGuide["29"][m].amount # avg["29"]
          /\ 116 * fd.dataByGuide["29"][m].amount =
                -16 * (fd.dataByGuide["1"][m].amount + fd.dataByGuide["40"][m].amount)

\* C21: for every forecast month in which the VAT category is active a VAT
\* breakdown is kept; its totalIncome is the sum of its income lines, its
\* totalExpense the sum of its expense lines, its netVat is
\* ivaAcreditable - ivaCobrado and is the VAT value posted for the month; an
\* Actual month has no breakdown.
C21_VatBreakdownKept ==
    currentView = "FORECASTED_MONTHLY_FLOW" =>
        \A fd \in {flowData} :
        \A k \in 1..12 :
           LET m == <<selectedYear, k>>
               vatActive == \E g \in Range(guides) :
                               /\ StartsWith(g.name, <<"2", "9", "-">>)
                               /\ ~g.isInactiveForForecast
                               /\ g.id \notin excludedGuideIds
               vat == CHOOSE g \in Range(guides) : StartsWith(g.name, <<"2", "9", "-">>)
           IN /\ ~fd.totals[m].isForecast => m \notin DOMAIN fd.vatDetailsByMonth
              /\ (fd.totals[m].isForecast /\ vatActive) =>
                    /\ m \in DOMAIN fd.vatDetailsByMonth
                    /\ \A vd \in {fd.vatDetailsByMonth[m]} :
                          /\ vd.totalIncome = SumOver(vd.incomes, DOMAIN vd.incomes)
                          /\ vd.totalExpense = SumOver(vd.expenses, DOMAIN vd.expenses)
                          /\ vd.netVat = vd.ivaAcreditable - vd.ivaCobrado
                          /\ vat.id \in DOMAIN fd.dataByGuide
                          /\ m \in DOMAIN fd.dataByGuide[vat.id]
                          /\ fd.dataByGuide[vat.id][m].amount = vd.netVat

\* C22: no cell of a forecast month is stored with |amount| <= 0.01, and an
\* active category without a transaction in the trailing window (the three
\* calendar months before the last real month) that is not Aguinaldo, PTU or
\* VAT has no cell in any forecast month.
C22_NoImmaterialForecast ==
    currentView = "FORECASTED_MONTHLY_FLOW" =>
        \A fd \in {flowData} :
           LET txs == transactions
               dated == {t.date : t \in Range(ValidDated(txs))}
               last == MonthIndex(MonthKey(Latest(dated)))
               inWindow(g) ==
                   /\ dated # {}
                   /\ \E i \in DOMAIN txs :
                         /\ IsDateString(txs[i].date)
                         /\ txs[i].guide = g
                         /\ MonthIndex(MonthKey(txs[i].date)) \in (last - 3)..(last - 1)
               derived == {g.id : g \in {h \in Range(guides) :
                              \/ h.name \in {AguinaldoName, PtuName}
                              \/ StartsWith(h.name, <<"2", "9", "-">>)}}
           IN \A g \in DOMAIN fd.dataByGuide : \A m \in DOMAIN fd.dataByGuide[g] :
                 fd.totals[m].isForecast =>
                    /\ Abs(fd.dataByGuide[g][m].amount) > Cent
                    /\ g \notin derived => inWindow(g)

\* The cells of the months of a table that are Actual (TRUE) or Forecast
MonthCells(fd, forecast) ==
    LET of(g) == {n \in DOMAIN fd.dataByGuide[g] : fd.totals[n].isForecast = forecast}
    IN [g \in {h \in DOMAIN fd.dataByGuide : of(h) # {}} |->
           [m \in of(g) |-> fd.dataByGuide[g][m]]]

\* C23: a category flagged inactive for the forecast or in the excluded set
\* has no value in a forecast month and adds nothing to the totals of the
\* forecast months, to the VAT breakdown or, when it is the payroll
\* category, to the Aguinaldo and PTU values; the values and totals of the
\* Actual months and the initial balance are those of the table with
\* nothing excluded.
C23_ExcludedLeftOut ==
    currentView = "FORECASTED_MONTHLY_FLOW" =>
        \A fd \in {flowData} :
        \A all \in {ForecastFlowData(transactions, guides, {}, selectedYear, useME,
                                     tz, randomSeq)} :
           LET out == excludedGuideIds
                        \cup {g.id : g \in {h \in Range(guides) : h.isInactiveForForecast}}
               bonus == {g.id : g \in {h \in Range(guides) :
                                          h.name \in {AguinaldoName, PtuName}}}
               payroll == {g.id : g \in {h \in Range(guides) : h.name = NominaName}}
               cells == MonthCells(fd, TRUE)
           IN /\ out \cap DOMAIN cells = {}
              /\ payroll \subseteq out => bonus \cap DOMAIN cells = {}
              /\ \A m \in DOMAIN fd.totals :
                    LET has == {g \in DOMAIN fd.dataByGuide \ out : m \in DOMAIN fd.dataByGuide[g]}
                        value == [g \in has |-> fd.dataByGuide[g][m].amount]
                    IN fd.totals[m].isForecast =>
                          /\ fd.totals[m].net = SumOver(value, has)
                          /\ fd.totals[m].income = SumOver(value, {g \in has : value[g] > 0})
                          /\ fd.totals[m].expense = SumOver(value, {g \in has : value[g] < 0})
              /\ \A m \in DOMAIN fd.vatDetailsByMonth :
                    /\ DOMAIN fd.vatDetailsByMonth[m].incomes \cap out = {}
                    /\ DOMAIN fd.vatDetailsByMonth[m].expenses \cap out = {}
              /\ MonthCells(fd, FALSE) = MonthCells(all, FALSE)
              /\ \A m \in DOMAIN fd.totals :
                    /\ fd.totals[m].isForecast = all.totals[m].isForecast
                    /\ ~fd.totals[m].isForecast => fd.totals[m] = all.totals[m]
              /\ fd.initialBalance = all.initialBalance

\* Payroll is unchecked in a year with Actual and Forecast months: the table
\* with nothing excluded forecasts payroll and a bonus, this one neither,
\* and the payroll paid in November is still shown.
C23_Witness ==
    /\ currentView = "FORECASTED_MONTHLY_FLOW"
    /\ excludedGuideIds = {"19"}
    /\ selectedYear = 2024
    /\ \E fd \in {flowData} :
       \E all \in {ForecastFlowData(transactions, guides, {}, selectedYear, useME,
                                    tz, randomSeq)} :
          /\ {"19", "20"} \subseteq DOMAIN all.dataByGuide
          /\ <<2024, 12>> \in DOMAIN all.dataByGuide["19"]
          /\ <<2024, 12>> \in DOMAIN all.dataByGuide["20"]
          /\ {"19", "20"} \subseteq DOMAIN fd.dataByGuide
          /\ DOMAIN fd.dataByGuide["19"] = {<<2024, 11>>}
          /\ <<2024, 12>> \notin DOMAIN fd.dataByGuide["20"]
          /\ fd.totals[<<2024, 12>>].expense # all.totals[<<2024, 12>>].expense

\* C24: for every Actual month of the selected year, the income, expense
\* and net totals and the value of every category in the forecast view are
\* those of the monthly view of the same transactions, year and amount
\* field.
C24_ActualMonthsAsMonthly ==
    currentView = "FORECASTED_MONTHLY_FLOW" =>
        \A fd \in {flowData} :
        \A monthly \in {MonthlyFlowData(transactions, guides, selectedYear, useME, tz)} :
        \A m \in {n \in DOMAIN fd.totals : ~fd.totals[n].isForecast} :
            /\ fd.totals[m].income = monthly.totals[m].income
            /\ fd.totals[m].expense = monthly.totals[m].expense
            /\ fd.totals[m].net = monthly.totals[m].net
            /\ \A g \in {t.guide : t \in Range(transactions)} \cup {h.id : h \in Range(guides)} :
                  LET name == getGuideName(guides, g)
                      inForecast == g \in DOMAIN fd.dataByGuide /\ m \in DOMAIN fd.dataByGuide[g]
                      inMonthly == name \in DOMAIN monthly.dataByGuide
                                   /\ m \in DOMAIN monthly.dataByGuide[name]
                  IN /\ inForecast = inMonthly
                     /\ inForecast => fd.dataByGuide[g][m].amount = monthly.dataByGuide[name][m]

\* The transaction with the date, category and amounts of a scheduled
\* payment and the type of the amount's sign
AsTransaction(q, me) ==
    Tx(q.id, q.guide, q.date, q.amount, q.amountME,
       IF (IF me THEN q.amountME ELSE q.amount) >= 0 THEN "Income" ELSE "Expense")

\* C25: with no scheduled payments and both date filters set, the combined
\* view has the dates, the income, expense and net totals of every date and
\* the initial balance of the daily view of the same transactions; and the
\* totals of the combined view are those it gives when every scheduled
\* payment is replaced by a transaction of the same date, category and
\* amount whose type follows the amount's sign.
C25_CombinedAsDaily ==
    currentView \in {"DAILY_FLOW", "COMBINED_FLOW"} =>
        /\ (scheduledPayments = <<>> /\ startDateFilter # NULL /\ endDateFilter # NULL) =>
              \A daily \in {DailyFlowData(transactions, guides, startDateFilter,
                                          endDateFilter, useME, tz)} :
              \A combined \in {CombinedFlowData(transactions, <<>>, guides, startDateFilter,
                                                endDateFilter, useME, tz, now)} :
                 /\ combined.dates = daily.dates
                 /\ combined.totals = daily.totals
                 /\ combined.initialBalance = daily.initialBalance
        /\ CombinedFlowData(transactions, scheduledPayments, guides, startDateFilter,
                            endDateFilter, useME, tz, now).totals
             = CombinedFlowData(transactions
                                  \o [i \in DOMAIN scheduledPayments |->
                                         AsTransaction(scheduledPayments[i], useME)],
                                <<>>, guides, startDateFilter, endDateFilter,
                                useME, tz, now).totals

\* C26: every value stored in a forecast month for a randomly varied
\* category (active, not Aguinaldo, PTU or VAT, average of at least 0.01),
\* the corrected final month included, has the sign of the category's
\* monthly average.
C26_VariedKeepsSign ==
    currentView = "FORECASTED_MONTHLY_FLOW" =>
        \A fd \in {flowData} :
        \A avg \in {monthlyAverages(transactions, guides, excludedGuideIds,
                                     selectedYear, useME, tz)} :
        \A g \in (activeGuideIds(guides, excludedGuideIds) \cap DOMAIN fd.dataByGuide)
                  \ {aguinaldoGuideId(guides), ptuGuideId(guides), vatGuideId(guides)} :
        \A m \in DOMAIN fd.dataByGuide[g] :
            (fd.dataByGuide[g][m].isForecast /\ Abs(GetOr0(avg, g)) >= Cent)
                => (fd.dataByGuide[g][m].amount > 0) = (avg[g] > 0)

-----------------------------------------------------------------------------
(* ScheduledFlowReportView.flowData and the sections the tables render     *)

ScheduledFlowReportData(pays, gs, selected, me, zone, clock) ==
    LET validPayments == ValidDated(pays)
        sorted == SortByDate(validPayments)
        weekStart == IF selected # NULL
                             THEN getWeekStartDate(selected, clock) ELSE NULL
        weekOf(i) == getWeekStartDate(sorted[i].date, clock)
        filteredPayments ==
            {i \in DOMAIN sorted : weekStart # NULL => weekOf(i) = weekStart}
        weeks ==
            IF weekStart # NULL THEN <<weekStart>>
            ELSE WeekLoop(zone, DateParseNoon(getWeekStartDate(sorted[1].date, clock)),
                          DateParseNoon(sorted[Len(sorted)].date))
        val == [i \in DOMAIN sorted |->
                   IF me THEN sorted[i].amountME ELSE sorted[i].amount]
        names == {getGuideName(gs, sorted[i].guide) : i \in filteredPayments}
        rowOf(name) == {i \in filteredPayments : getGuideName(gs, sorted[i].guide) = name}
        dataByGuide ==
            [name \in names |->
                [w \in {weekOf(i) : i \in rowOf(name)} |->
                    SumOver(val, {i \in rowOf(name) : weekOf(i) = w})]]
        weeklyTotals ==
            [w \in Range(weeks) |->
                LET inWeek == {i \in filteredPayments : weekOf(i) = w}
                    toIncome == {i \in inWeek : val[i] >= 0}
                IN BucketTotals(val, toIncome, inWeek \ toIncome)]
    IN IF Len(validPayments) = 0
       THEN [dates |-> <<>>, dataByGuide |-> EmptyMap, totals |-> EmptyMap]
       ELSE [dates |-> weeks, dataByGuide |-> dataByGuide, totals |-> weeklyTotals]

\* The views whose table has an income and an expense section of category
\* rows above the totals
SectionViews == {"DAILY_FLOW", "REAL_WEEKLY_FLOW", "MONTHLY_FLOW", "SCHEDULED_FLOW_REPORT"}

\* The table the mounted view of SectionViews renders
SectionFlowData ==
    IF currentView = "SCHEDULED_FLOW_REPORT"
    THEN ScheduledFlowReportData(scheduledPayments, guides, selectedDate, useME, tz, now)
    ELSE flowData

\* The row that shows its net value in the income section and is kept out of
\* the expense section: getGuideName('13') in the daily, weekly and monthly
\* tables, none in the scheduled report
NetRows ==
    IF currentView = "SCHEDULED_FLOW_REPORT" THEN {} ELSE {getGuideName(guides, transferGuideId)}

\* The sum of the cells the income section shows in column b: the cells of
\* the net rows and the positive cells of the other rows
ShownIncome(fd, b) ==
    LET has == {c \in DOMAIN fd.dataByGuide : b \in DOMAIN fd.dataByGuide[c]}
        value == [c \in has |-> fd.dataByGuide[c][b]]
    IN SumOver(value, {c \in has : c \in NetRows \/ value[c] > 0})

\* The sum of the cells the expense section shows in column b: the negative
\* cells of the rows other than the net rows
ShownExpense(fd, b) ==
    LET has == {c \in DOMAIN fd.dataByGuide : b \in DOMAIN fd.dataByGuide[c]}
        value == [c \in has |-> fd.dataByGuide[c][b]]
    IN SumOver(value, {c \in has : c \notin NetRows /\ value[c] < 0})

\* ScheduledFlowReportView: setSelectedDate(e.target.value), setSelectedDate(null)
setReportSelectedDate(d) ==
    /\ currentView = "SCHEDULED_FLOW_REPORT"
    /\ selectedDate' = d
    /\ UNCHANGED <<storeVars, currentView, startDateFilter, endDateFilter,
                   selectedYear, excludedGuideIds, useME, envVars>>
    /\ UNCHANGED sortVars

\* ScheduledFlowReportView: setUseME(e.target.checked)
setReportUseME ==
    /\ currentView = "SCHEDULED_FLOW_REPORT"
    /\ useME' = ~useME
    /\ UNCHANGED <<storeVars, currentView, startDateFilter, endDateFilter,
                   selectedDate, selectedYear, excludedGuideIds, envVars>>
    /\ UNCHANGED sortVars

Nov5 == <<2024, 11, 5>>

\* Sales and a purchase of the same category on different days of one month,
\* and both legs of a transfer
SpreadStore ==
    << Tx(1, "1", Nov4, 120 * Cent, 5 * Cent, "Income"),
       Tx(2, "1", Nov9, -60 * Cent, -3 * Cent, "Expense"),
       Tx(3, "13", Nov4, 50 * Cent, 0, "Income"),
       Tx(4, "13", Nov4, -50 * Cent, -2 * Cent, "Expense") >>

\* A sale and a refund of the same category on the same day
SameDayStore ==
    << Tx(1, "1", Nov4, 120 * Cent, 5 * Cent, "Income"),
       Tx(2, "1", Nov4, -60 * Cent, -3 * Cent, "Expense") >>

\* A collection and a payment scheduled for the same category in different
\* weeks, and in the same week
SpreadPayments ==
    << Payment(1, ZetaConcept, "1", Nov4, 50 * Cent, 2 * Cent),
       Payment(2, ZetaConcept, "1", Nov9, -40 * Cent, -2 * Cent) >>
SameWeekPayments ==
    << Payment(1, ZetaConcept, "1", Nov4, 50 * Cent, 2 * Cent),
       Payment(2, ZetaConcept, "1", Nov5, -40 * Cent, -2 * Cent) >>

InitSections ==
    /\ persistentTransactions = <<>>
    /\ sessionTransactions \in {<<>>, SpreadStore, SameDayStore}
    /\ persistenceEnabled = FALSE
    /\ scheduledPayments \in {<<>>, SpreadPayments, SameWeekPayments}
    /\ guides = InitialGuides
    /\ currentView \in SectionViews
    /\ startDateFilter = NULL
    /\ endDateFilter = NULL
    /\ selectedDate = NULL
    /\ tz \in TimeZones
    /\ now = Clock
    /\ selectedYear = GetFullYear(tz, now)
    /\ excludedGuideIds = {}
    /\ useME = FALSE
    /\ randomSeq = <<>>
    /\ entries = <<>>
    /\ sortedGuides = <<>>

NextSections ==
    \/ \E v \in SectionViews : setCurrentView(v)
    \/ \E d \in SelectedDates \cup {NULL} : setSelectedDate(d)
    \/ \E d \in SelectedDates \cup {NULL} : setReportSelectedDate(d)
    \/ setUseME
    \/ setReportUseME

SpecSections == InitSections /\ [][NextSections]_vars

\* C27: in the daily, weekly, monthly and scheduled-report tables, in every
\* column the income total is the sum of the cells shown in the income
\* section and the expense total is the sum of the cells shown in the
\* expense section.
C27_SectionsSumToTotals ==
    currentView \in SectionViews =>
        \A fd \in {SectionFlowData} :
        \A i \in 1..Len(fd.dates) :
            /\ IncomeOf(fd.totals, fd.dates[i]) = ShownIncome(fd, fd.dates[i])
            /\ ExpenseOf(fd.totals, fd.dates[i]) = ShownExpense(fd, fd.dates[i])

\* C28: in the forecast view the opening balance of the year after the
\* selected one is the closing balance shown for December of the selected
\* year, also when the selected year has forecast months.
C28_BalanceCarriesOver ==
    currentView = "FORECASTED_MONTHLY_FLOW" =>
        \A fd \in {flowData} :
            YearInitialBalance(transactions, selectedYear + 1, useME, tz)
                = SaldoFinalRow(fd)[12]

\* The sum of a field of the totals of the columns of a table
RECURSIVE SumOfColumns(_, _, _)
SumOfColumns(totals, columns, field) ==
    IF columns = <<>> THEN 0
    ELSE totals[Head(columns)][field] + SumOfColumns(totals, Tail(columns), field)

\* C29: in the real weekly view with a selected date and at least one valid
\* transaction, the columns are the seven consecutive days from the
\* Saturday on or before that date; a week holding a transaction is a
\* column of the all-weeks mode; and when the week is such a column, the
\* sums of the seven days' income, expense and net totals are the column's
\* totals and the initial balance is the column's opening balance.
C29_DailyModeRefinesWeek ==
    (currentView = "REAL_WEEKLY_FLOW" /\ selectedDate # NULL
        /\ ValidDated(transactions) # <<>>) =>
        \A daily \in {flowData} :
        \A weeks \in {RealWeeklyFlowData(transactions, guides, NULL, useME, tz, now)} :
            LET w == getWeekStartDate(selectedDate, now)
                opening == OpeningRow(weeks.initialBalance, weeks.dates, weeks.totals)
            IN /\ daily.isDaily
               /\ Len(daily.dates) = 7
               /\ \A i \in 1..7 : Day(daily.dates[i]) = Day(w) + i - 1
               /\ (Day(w) + 4) % 7 = 6
               /\ Day(w) <= Day(selectedDate) /\ Day(selectedDate) <= Day(w) + 6
               /\ (\E t \in Range(ValidDated(transactions)) : t.date \in Range(daily.dates))
                     => w \in Range(weeks.dates)
               /\ \A k \in DOMAIN weeks.dates :
                     weeks.dates[k] = w =>
                        /\ SumOfColumns(daily.totals, daily.dates, "income")
                              = weeks.totals[w].income
                        /\ SumOfColumns(daily.totals, daily.dates, "expense")
                              = weeks.totals[w].expense
                        /\ SumOfColumns(daily.totals, daily.dates, "net")
                              = weeks.totals[w].net
                        /\ daily.initialBalance = opening[k]

-----------------------------------------------------------------------------
(* AppContext: the operations on the two transaction stores                *)

\* newTransactions.map((t, i) => ({ ...t, id: `${Date.now()}-${i}` })): ids
\* no stored record has, in the order of the batch
BatchIds(used, n) ==
    CHOOSE ids \in [1..n -> 1..(Cardinality(used) + n)] :
        /\ \A i \in 1..n : ids[i] \notin used
        /\ \A i, j \in 1..n : i < j => ids[i] < ids[j]

\* currentSetTransactions(prev => [...prev, ...transactionsWithIds])
addMultipleTransactions(newTransactions) ==
    /\ currentView = "TRANSACTIONS"
    /\ Len(transactions) + Len(newTransactions) <= MaxTx
    /\ LET ids == BatchIds(TxIds, Len(newTransactions))
           transactionsWithIds ==
               [i \in DOMAIN newTransactions |-> [newTransactions[i] EXCEPT !.id = ids[i]]]
       IN IF persistenceEnabled
          THEN /\ persistentTransactions' = persistentTransactions \o transactionsWithIds
               /\ UNCHANGED sessionTransactions
          ELSE /\ sessionTransactions' = sessionTransactions \o transactionsWithIds
               /\ UNCHANGED persistentTransactions
    /\ UNCHANGED <<persistenceEnabled, scheduledPayments, guides, viewVars, envVars>>
    /\ UNCHANGED sortVars

\* currentSetTransactions(prev => prev.filter(t => t.id !== id)), from a row
\* of the transactions table
deleteTransaction(id) ==
    /\ currentView = "TRANSACTIONS"
    /\ \E t \in Range(transactions) : t.id = id
    /\ IF persistenceEnabled
       THEN /\ persistentTransactions' =
                  SelectSeq(persistentTransactions, LAMBDA t : t.id # id)
            /\ UNCHANGED sessionTransactions
       ELSE /\ sessionTransactions' =
                  SelectSeq(sessionTransactions, LAMBDA t : t.id # id)
            /\ UNCHANGED persistentTransactions
    /\ UNCHANGED <<persistenceEnabled, scheduledPayments, guides, viewVars, envVars>>
    /\ UNCHANGED sortVars

\* { ...t, ...updatedData }
Merged(t, updatedData) ==
    [f \in DOMAIN t \cup DOMAIN updatedData |->
        IF f \in DOMAIN updatedData THEN updatedData[f] ELSE t[f]]

\* currentSetTransactions(prev => prev.map(t => t.id === id ? { ...t, ...updatedData } : t))
updateTransaction(id, updatedData) ==
    /\ currentView = "TRANSACTIONS"
    /\ \E t \in Range(transactions) : t.id = id
    /\ IF persistenceEnabled
       THEN /\ persistentTransactions' =
                  [i \in DOMAIN persistentTransactions |->
                      IF persistentTransactions[i].id = id
                      THEN Merged(persistentTransactions[i], updatedData)
                      ELSE persistentTransactions[i]]
            /\ UNCHANGED sessionTransactions
       ELSE /\ sessionTransactions' =
                  [i \in DOMAIN sessionTransactions |->
                      IF sessionTransactions[i].id = id
                      THEN Merged(sessionTransactions[i], updatedData)
                      ELSE sessionTransactions[i]]
            /\ UNCHANGED persistentTransactions
    /\ UNCHANGED <<persistenceEnabled, scheduledPayments, guides, viewVars, envVars>>
    /\ UNCHANGED sortVars

\* clearHistory with the persistent store left as it is
clearHistorySessionOnly ==
    /\ currentView = "TRANSACTIONS"
    /\ sessionTransactions' = <<>>
    /\ scheduledPayments' = <<>>
    /\ UNCHANGED <<persistentTransactions, persistenceEnabled, guides, viewVars, envVars>>
    /\ UNCHANGED sortVars

\* setPersistentTransactions([]); setSessionTransactions([]); setScheduledPayments([])
clearHistory ==
    /\ currentView = "TRANSACTIONS"
    /\ persistentTransactions' = <<>>
    /\ sessionTransactions' = <<>>
    /\ scheduledPayments' = <<>>
    /\ UNCHANGED <<persistenceEnabled, guides, viewVars, envVars>>
    /\ UNCHANGED sortVars

\* The persistence checkbox: setPersistenceEnabled(e.target.checked)
setPersistenceEnabled(enabled) ==
    /\ currentView = "TRANSACTIONS"
    /\ enabled # persistenceEnabled
    /\ persistenceEnabled' = enabled
    /\ UNCHANGED <<persistentTransactions, sessionTransactions, scheduledPayments,
                   guides, viewVars, envVars>>
    /\ UNCHANGED sortVars

StorePool ==
    { Tx(0, "1", Oct15, 120 * Cent, 5 * Cent, "Income"),
      Tx(0, "1", Nov9, -60 * Cent, -3 * Cent, "Expense") }

Batches == UNION {[1..n -> StorePool] : n \in 1..MaxTx}

Updates == {[guide |-> "13"]}

InitStore ==
    /\ persistentTransactions = <<>>
    /\ sessionTransactions = <<>>
    /\ persistenceEnabled = FALSE
    /\ scheduledPayments = <<>>
    /\ guides = InitialGuides
    /\ currentView = "TRANSACTIONS"
    /\ startDateFilter = NULL
    /\ endDateFilter = NULL
    /\ selectedDate = NULL
    /\ tz = "UTC"
    /\ now = Clock
    /\ selectedYear = GetFullYear(tz, now)
    /\ excludedGuideIds = {}
    /\ useME = FALSE
    /\ randomSeq = <<>>
    /\ entries = <<>>
    /\ sortedGuides = <<>>

TransactionOperation ==
    \/ \E t \in StorePool : addTransaction(t)
    \/ \E ts \in Batches : addMultipleTransactions(ts)
    \/ \E id \in TxIds : deleteTransaction(id)
    \/ \E id \in TxIds : \E d \in Updates : updateTransaction(id, d)

NextStore ==
    \/ \E v \in {"TRANSACTIONS", "WEEKLY_FLOW"} : setCurrentView(v)
    \/ TransactionOperation
    \/ \E q \in PaymentPool : addScheduledPayment(q)
    \/ \E b \in BOOLEAN : setPersistenceEnabled(b)
    \/ clearHistory

SpecStore == InitStore /\ [][NextStore]_vars

\* C30: addTransaction, addMultipleTransactions, deleteTransaction and
\* updateTransaction change the store the persistence flag selects and leave
\* the other store, the flag and the scheduled payments as they are;
\* changing the flag changes neither store, so the transactions shown after
\* it are the unchanged contents of the newly selected store; clearHistory
\* leaves the persistent store, the session store and the scheduled payments
\* empty.
C30_StoresKeptApart ==
    [][ /\ TransactionOperation =>
              /\ persistenceEnabled' = persistenceEnabled
              /\ scheduledPayments' = scheduledPayments
              /\ IF persistenceEnabled
                 THEN /\ sessionTransactions' = sessionTransactions
                      /\ persistentTransactions' # persistentTransactions
                 ELSE /\ persistentTransactions' = persistentTransactions
                      /\ sessionTransactions' # sessionTransactions
        /\ (\E b \in BOOLEAN : setPersistenceEnabled(b)) =>
              /\ persistentTransactions' = persistentTransactions
              /\ sessionTransactions' = sessionTransactions
              /\ transactions' = IF persistenceEnabled
                                 THEN sessionTransactions ELSE persistentTransactions
        /\ clearHistory =>
              /\ persistentTransactions' = <<>>
              /\ sessionTransactions' = <<>>
              /\ scheduledPayments' = <<>>
      ]_vars

\* Each store received records of its own while it was selected, and the
\* persistent one is selected.
C30_Witness ==
    /\ persistenceEnabled
    /\ Len(persistentTransactions) = MaxTx
    /\ Len(sessionTransactions) = 1
    /\ \E t \in Range(persistentTransactions) : t.guide = "13"
    /\ \A t \in Range(sessionTransactions) : t.guide = "1"

====
